---- MODULE Spec2Model ----
(***************************************************************************)
(* Continuous-Galerkin assembly of pymordemos/                             *)
(* discretize_cg_with_nonlinear_reactionoperator.py: the matrix            *)
(* assemblers, the nonlinear reaction operator with its element-weighted   *)
(* variant, and the quadratic tracking functional.                         *)
(*                                                                         *)
(* Numbers are exact rationals <<n, d>> (d > 0, lowest terms), so that     *)
(* every product, sum and quotient of the code is computed, not assumed.   *)
(* DOFs, elements and local indices are numbered from 1 (Python: from 0).  *)
(* The source's arrays SF_INTS, SF_I0, SF_I1, SF_I are called INTS, I0,   *)
(* I1, I: a TLA+ name cannot start with SF_.                               *)
(***************************************************************************)
EXTENDS Integers, Sequences, FiniteSets, TLC

VARIABLES grid, boundary_info, op, ret

vars == <<grid, boundary_info, op, ret>>

(***************************************************************************)
(* Exact arithmetic.                                                       *)
(***************************************************************************)
Abs(x) == IF x < 0 THEN -x ELSE x

RECURSIVE Gcd(_, _)
Gcd(a, b) == IF b = 0 THEN a ELSE Gcd(b, a % b)

Frac(n, d) ==
    LET s == IF d < 0 THEN -1 ELSE 1
        g == Gcd(Abs(n), Abs(d))
    IN  IF n = 0 THEN <<0, 1>> ELSE <<(s * n) \div g, (s * d) \div g>>

R(n) == <<n, 1>>

RZero == <<0, 1>>

ROne == <<1, 1>>

RAdd(x, y) == Frac(x[1] * y[2] + y[1] * x[2], x[2] * y[2])

RSub(x, y) == Frac(x[1] * y[2] - y[1] * x[2], x[2] * y[2])

RMul(x, y) == Frac(x[1] * y[1], x[2] * y[2])

RDiv(x, y) == Frac(x[1] * y[2], x[2] * y[1])

RNeg(x) == <<-x[1], x[2]>>

\* sum(s): left-to-right sum of a sequence of numbers
RECURSIVE RSumTo(_, _)
RSumTo(s, k) == IF k = 0 THEN RZero ELSE RAdd(RSumTo(s, k - 1), s[k])

RSum(s) == RSumTo(s, Len(s))

\* product of a sequence of numbers (one einsum term), reduced once
RECURSIVE NumProd(_, _, _)
NumProd(s, c, k) == IF k = 0 THEN 1 ELSE NumProd(s, c, k - 1) * s[k][c]

RProd(s) == Frac(NumProd(s, 1, Len(s)), NumProd(s, 2, Len(s)))

Range(s) == {s[k] : k \in DOMAIN s}

\* An array built once and stored (np.array(...)), not recomputed on access
Arr(s) == s \o <<>>

\* np.zeros(n) / an n x n zero matrix
ZeroVec(n) == [k \in 1..n |-> RZero]

ZeroMat(n) == [r \in 1..n |-> [c \in 1..n |-> RZero]]

VecAdd(a, b) == [k \in DOMAIN a |-> RAdd(a[k], b[k])]

VecScale(s, a) == [k \in DOMAIN a |-> RMul(s, a[k])]

MatAdd(A, B) == [r \in DOMAIN A |-> [c \in DOMAIN A[r] |-> RAdd(A[r][c], B[r][c])]]

MatScale(s, A) == [r \in DOMAIN A |-> [c \in DOMAIN A[r] |-> RMul(s, A[r][c])]]

(***************************************************************************)
(* Reference elements: shape functions, gradients (module constants) and   *)
(* the quadrature rules of the reference-element provider.                 *)
(***************************************************************************)
Half == <<1, 2>>

\* number of local shape functions: 2 (line), 3 (triangle), 4 (square)
NLocal(ref) == IF ref = "line" THEN 2 ELSE IF ref = "triangle" THEN 3 ELSE 4

\* LagrangeShapeFunctions[ref][1][p](X), X a point of the reference element
LagrangeShapeFunctions(ref, p, X) ==
    IF ref = "line" THEN
        (IF p = 1 THEN RSub(ROne, X[1]) ELSE X[1])
    ELSE IF ref = "triangle" THEN
        (IF p = 1 THEN RSub(RSub(ROne, X[1]), X[2])
         ELSE IF p = 2 THEN X[1] ELSE X[2])
    ELSE
        (IF p = 1 THEN RMul(RSub(ROne, X[1]), RSub(ROne, X[2]))
         ELSE IF p = 2 THEN RMul(RSub(ROne, X[2]), X[1])
         ELSE IF p = 3 THEN RMul(X[1], X[2])
         ELSE RMul(X[2], RSub(ROne, X[1])))

\* Variant: the first shape function of line and triangle has a gradient
\* that does not balance the others.
LagrangeShapeFunctionsGrads_unbalanced(ref, p, j, X) ==
    IF ref = "line" THEN
        (IF p = 1 THEN R(-2) ELSE R(1))
    ELSE IF ref = "triangle" THEN
        <<<<R(-1), R(0)>>, <<R(1), R(0)>>, <<R(0), R(1)>>>>[p][j]
    ELSE
        (IF p = 1 THEN (IF j = 1 THEN RSub(X[2], ROne) ELSE RSub(X[1], ROne))
         ELSE IF p = 2 THEN (IF j = 1 THEN RSub(ROne, X[2]) ELSE RNeg(X[1]))
         ELSE IF p = 3 THEN (IF j = 1 THEN X[2] ELSE X[1])
         ELSE (IF j = 1 THEN RNeg(X[2]) ELSE RSub(ROne, X[1])))

\* LagrangeShapeFunctionsGrads[ref][1]: component j of the gradient of the
\* p-th shape function (constant for line and triangle, evaluated at X for
\* the square)
LagrangeShapeFunctionsGrads(ref, p, j, X) ==
    IF ref = "line" THEN
        (IF p = 1 THEN R(-1) ELSE R(1))
    ELSE IF ref = "triangle" THEN
        <<<<R(-1), R(-1)>>, <<R(1), R(0)>>, <<R(0), R(1)>>>>[p][j]
    ELSE
        (IF p = 1 THEN (IF j = 1 THEN RSub(X[2], ROne) ELSE RSub(X[1], ROne))
         ELSE IF p = 2 THEN (IF j = 1 THEN RSub(ROne, X[2]) ELSE RNeg(X[1]))
         ELSE IF p = 3 THEN (IF j = 1 THEN X[2] ELSE X[1])
         ELSE (IF j = 1 THEN RNeg(X[2]) ELSE RSub(ROne, X[1])))

\* The two points of the order-2 rule on the unit interval.  The provider's
\* Gauss points (1 -+ 1/sqrt 3)/2 are irrational; the model keeps the rule's
\* shape (two points symmetric about 1/2, weights 1/2) with rational points.
GaussLo == <<1, 5>>

GaussHi == <<4, 5>>

\* reference_element.quadrature(order) -> [q |-> points, w |-> weights]
quadrature(ref, order) ==
    IF ref = "triangle" THEN
        (IF order = 1
         THEN [q |-> <<<<<<1, 3>>, <<1, 3>>>>>>, w |-> <<Half>>]
         ELSE [q |-> <<<<Half, Half>>, <<RZero, Half>>, <<Half, RZero>>>>,
               w |-> <<<<1, 6>>, <<1, 6>>, <<1, 6>>>>])
    ELSE IF ref = "line" THEN
        (IF order = 1
         THEN [q |-> <<<<Half>>>>, w |-> <<ROne>>]
         ELSE [q |-> <<<<GaussLo>>, <<GaussHi>>>>, w |-> <<Half, Half>>])
    ELSE
        (IF order = 1
         THEN [q |-> <<<<Half, Half>>>>, w |-> <<ROne>>]
         ELSE [q |-> <<<<GaussLo, GaussLo>>, <<GaussLo, GaussHi>>,
                       <<GaussHi, GaussLo>>, <<GaussHi, GaussHi>>>>,
               w |-> <<<<1, 4>>, <<1, 4>>, <<1, 4>>, <<1, 4>>>>])

\* SF = np.array(tuple(f(q) for f in SF)): SF[p][i], shape function p at
\* quadrature point i
ShapeValues(ref, q) ==
    Arr([p \in 1..NLocal(ref) |->
            Arr([i \in 1..Len(q) |-> LagrangeShapeFunctions(ref, p, q[i])])])

(***************************************************************************)
(* Grids of the grid provider (read-only): topology and per-element        *)
(* geometric factors.  volumes = integration_elements * reference volume.  *)
(* facets = subentities(1, dim), the vertices of each codim-1 entity;       *)
(* facet_integration_elements = integration_elements(1), the edge lengths   *)
(* (1 for the points of a line grid); boundary_facets = boundaries(1).      *)
(* Irrational lengths are replaced by nearby rationals.                     *)
(***************************************************************************)
Id2 == <<<<ROne, RZero>>, <<RZero, ROne>>>>

\* one reference triangle (0,0), (1,0), (0,1)
GridTria1 ==
    [reference_element |-> "triangle", dim |-> 2, nverts |-> 3,
     subentities |-> <<<<1, 2, 3>>>>,
     integration_elements |-> <<ROne>>,
     volumes |-> <<Half>>,
     jacobian_inverse_transposed |-> <<Id2>>,
     facets |-> <<<<2, 3>>, <<1, 3>>, <<1, 2>>>>,
     facet_integration_elements |-> <<<<7, 5>>, ROne, ROne>>,
     boundary_facets |-> {1, 2, 3}]

\* two triangles sharing the edge (1,0)-(0,1); the second has apex (2,2)
GridTria2 ==
    [reference_element |-> "triangle", dim |-> 2, nverts |-> 4,
     subentities |-> <<<<1, 2, 3>>, <<2, 4, 3>>>>,
     integration_elements |-> <<ROne, R(3)>>,
     volumes |-> <<Half, <<3, 2>>>>,
     jacobian_inverse_transposed |->
        <<Id2, <<<<<<1, 3>>, <<-2, 3>>>>, <<<<1, 3>>, <<1, 3>>>>>>>>,
     facets |-> <<<<1, 2>>, <<1, 3>>, <<2, 3>>, <<2, 4>>, <<3, 4>>>>,
     facet_integration_elements |-> <<ROne, ROne, <<7, 5>>, <<9, 4>>, <<9, 4>>>>,
     boundary_facets |-> {1, 2, 4, 5}]

\* two intervals [0,1], [1,3]
GridLine2 ==
    [reference_element |-> "line", dim |-> 1, nverts |-> 3,
     subentities |-> <<<<1, 2>>, <<2, 3>>>>,
     integration_elements |-> <<ROne, R(2)>>,
     volumes |-> <<ROne, R(2)>>,
     jacobian_inverse_transposed |-> <<<<<<ROne>>>>, <<<<Half>>>>>>,
     facets |-> <<<<1>>, <<2>>, <<3>>>>,
     facet_integration_elements |-> <<ROne, ROne, ROne>>,
     boundary_facets |-> {1, 3}]

\* one rectangle [0,2]x[0,1]; vertices 1 2 below, 4 3 above
GridSquare1 ==
    [reference_element |-> "square", dim |-> 2, nverts |-> 4,
     subentities |-> <<<<1, 2, 3, 4>>>>,
     integration_elements |-> <<R(2)>>,
     volumes |-> <<R(2)>>,
     jacobian_inverse_transposed |-> <<<<<<Half, RZero>>, <<RZero, ROne>>>>>>,
     facets |-> <<<<1, 2>>, <<2, 3>>, <<3, 4>>, <<1, 4>>>>,
     facet_integration_elements |-> <<R(2), ROne, R(2), ROne>>,
     boundary_facets |-> {1, 2, 3, 4}]

\* one tetrahedron, a grid of dimension 3 (no matrix assembler accepts it)
GridTetra1 ==
    [reference_element |-> "tetrahedron", dim |-> 3, nverts |-> 4,
     subentities |-> <<<<1, 2, 3, 4>>>>,
     integration_elements |-> <<ROne>>,
     volumes |-> <<<<1, 6>>>>,
     jacobian_inverse_transposed |->
        <<<<<<ROne, RZero, RZero>>, <<RZero, ROne, RZero>>, <<RZero, RZero, ROne>>>>>>,
     facets |-> <<<<2, 3, 4>>, <<1, 3, 4>>, <<1, 2, 4>>, <<1, 2, 3>>>>,
     facet_integration_elements |-> <<<<7, 4>>, ROne, ROne, ROne>>,
     boundary_facets |-> {1, 2, 3, 4}]

Grids == {GridTria1, GridTria2, GridLine2, GridSquare1}

\* grid.size(0), grid.size(grid.dim)
NumElements(g) == Len(g.subentities)

NumDofs(g) == g.nverts

(***************************************************************************)
(* Boundary info (read-only): the set of Dirichlet DOFs and the sets of    *)
(* Robin and Neumann facets.  None is the value of a missing boundary info. *)
(***************************************************************************)
MaxDirichlet == 2

None == [none |-> TRUE]

\* EmptyBoundaryInfo(grid): no boundary entity has a type
EmptyBoundaryInfo == [dirichlet |-> {}, robin |-> {}, neumann |-> {}]

\* bi.has_robin
has_robin(bi) == bi.robin /= {}

\* bi.has_neumann
has_neumann(bi) == bi.neumann /= {}

\* boundary infos without Robin facets
BoundaryInfos(g) ==
    {[dirichlet |-> D, robin |-> {}, neumann |-> {}] :
        D \in {D \in SUBSET (1..NumDofs(g)) : Cardinality(D) <= MaxDirichlet}}

has_dirichlet(bi) == bi.dirichlet /= {}

\* bi.dirichlet_mask(g.dim)[d]
dirichlet_mask(bi, d) == d \in bi.dirichlet

\* bi.dirichlet_boundaries(g.dim): the Dirichlet DOFs in increasing order
RECURSIVE SortedSeq(_)
SortedSeq(S) ==
    IF S = {} THEN <<>>
    ELSE LET m == CHOOSE x \in S : \A y \in S : x <= y
         IN  <<m>> \o SortedSeq(S \ {m})

dirichlet_boundaries(bi) == SortedSeq(bi.dirichlet)

\* bi.robin_boundaries(1): the Robin facets in increasing order
robin_boundaries(bi) == SortedSeq(bi.robin)

\* the vertices of the facets in F
FacetVertices(g, F) == {g.facets[f][i] : f \in F, i \in 1..(IF g.dim = 1 THEN 1 ELSE g.dim)}

BoundaryTypes == {"dirichlet", "neumann", "robin"}

\* boundary infos that give every boundary facet one type; a vertex is a
\* Dirichlet DOF when it lies on a Dirichlet facet
FacetBoundaryInfos(g) ==
    {[dirichlet |-> FacetVertices(g, {f \in g.boundary_facets : t[f] = "dirichlet"}),
      robin |-> {f \in g.boundary_facets : t[f] = "robin"},
      neumann |-> {f \in g.boundary_facets : t[f] = "neumann"}] :
        t \in [g.boundary_facets -> BoundaryTypes]}

(***************************************************************************)
(* Problem data functions, evaluated at the element centers with the       *)
(* parameter mu.  A parameter is a tuple of integers.                      *)
(***************************************************************************)
Mus == {<<1>>, <<2, 3>>}

\* scalar functions (shape_range == ()): value on element e
ScalarFunctions == {"one", "elementwise", "signed", "parametric"}

EvalScalar(f, e, mu) ==
    IF f = "one" THEN ROne
    ELSE IF f = "elementwise" THEN R(e + 1)
    ELSE IF f = "signed" THEN (IF e % 2 = 1 THEN R(1) ELSE R(-1))
    ELSE RMul(R(mu[1]), R(e))

\* vector functions (shape_range == (dim,)): component i on element e;
\* "ones" is ConstantFunction(np.ones((grid.dim,)), grid.dim)
VectorFunctions == {"ones", "skew"}

EvalVector(f, e, i, mu) ==
    IF f = "ones" THEN ROne
    ELSE (IF i = 1 THEN R(e) ELSE R(-mu[1]))

\* matrix functions (shape_range == (dim, dim)): entry (i, j) on element e
MatrixFunctions == {"tensor"}

EvalMatrix(f, e, i, j, mu) ==
    IF i = j THEN R(e + i) ELSE IF i < j THEN ROne ELSE RZero

(***************************************************************************)
(* numpy / scipy.sparse building blocks.                                   *)
(***************************************************************************)
\* X.ravel() of an array X[e][i][j] with ne x n x n entries
Ravel3(X, ne, n) ==
    Arr([k \in 1..(ne * n * n) |->
        X[((k - 1) \div (n * n)) + 1][(((k - 1) % (n * n)) \div n) + 1][((k - 1) % n) + 1]])

\* X.ravel() of an array X[e][j] with ne x n entries
Ravel2(X, ne, n) ==
    Arr([k \in 1..(ne * n) |-> X[((k - 1) \div n) + 1][((k - 1) % n) + 1]])

\* np.tile(sub, [1, n]).ravel(): each row of sub repeated n times as a whole
np_tile_ravel(sub, n) ==
    LET nl == Len(sub[1])
    IN  Arr([k \in 1..(Len(sub) * nl * n) |->
            sub[((k - 1) \div (nl * n)) + 1][((k - 1) % nl) + 1]])

\* np.repeat(sub, n, axis=1).ravel(): each entry of a row repeated n times
np_repeat_ravel(sub, n) ==
    LET nl == Len(sub[1])
    IN  Arr([k \in 1..(Len(sub) * nl * n) |->
            sub[((k - 1) \div (nl * n)) + 1][(((k - 1) % (nl * n)) \div n) + 1]])

\* Variant: no contribution is zeroed.
np_where_zero_kept(bi, I, data) == data

\* np.where(mask[I], 0, data)
np_where_zero(bi, I, data) ==
    Arr([k \in DOMAIN data |-> IF dirichlet_mask(bi, I[k]) THEN RZero ELSE data[k]])

\* np.hstack((a, b))
np_hstack(a, b) == a \o b

\* np.ones(n)
np_ones(n) == [k \in 1..n |-> ROne]

\* coo_matrix((data, (I0, I1)), shape=(n, n)) converted to csc / dense:
\* entries sharing a position are added, in storage order
RECURSIVE coo_accumulate(_, _, _, _, _)
coo_accumulate(data, I0, I1, k, n) ==
    IF k = 0 THEN ZeroMat(n)
    ELSE LET A == coo_accumulate(data, I0, I1, k - 1, n)
         IN  [A EXCEPT ![I0[k]][I1[k]] = RAdd(@, data[k])]

coo_matrix(data, I0, I1, n) == coo_accumulate(data, I0, I1, Len(data), n)

\* A.eliminate_zeros(); A = csc_matrix(A).copy(): the positions the returned
\* matrix stores.  eliminate_zeros drops the zero entries of the coordinate
\* list; csc_matrix(A) then sums the entries with the same coordinates and
\* stores every position that is left in the list, whatever the sum.
csc_stored(data, I0, I1) ==
    {<<I0[k], I1[k]>> : k \in {k \in DOMAIN data : data[k] /= RZero}}

\* coo_matrix((data, (I, 0)), shape=(n, 1)).toarray().ravel()
RECURSIVE coo_vector_accumulate(_, _, _, _)
coo_vector_accumulate(data, I, k, n) ==
    IF k = 0 THEN ZeroVec(n)
    ELSE LET A == coo_vector_accumulate(data, I, k - 1, n)
         IN  [A EXCEPT ![I[k]] = RAdd(@, data[k])]

coo_vector(data, I, n) == coo_vector_accumulate(data, I, Len(data), n)

\* Variant: the Dirichlet entries are kept.
ClearDofs_kept(A, bi) == A

\* A[DI] = 0
ClearDofs(A, bi) == [d \in DOMAIN A |-> IF d \in bi.dirichlet THEN RZero ELSE A[d]]

(***************************************************************************)
(* Matrix assemblers.  `self` is the operator object (its constructor      *)
(* arguments), g and bi the grid and boundary info it refers to.           *)
(***************************************************************************)
\* L2ProductP1/Q1: np.einsum('iq,jq,q,e,e->eij', SF, SF, w, ie, C), or
\* without C when coefficient_function is None
L2Product_SF_INTS(self, g, mu) ==
    LET ref == g.reference_element
        qw  == quadrature(ref, 2)
        SF  == ShapeValues(ref, qw.q)
    IN  [e \in 1..NumElements(g) |-> [i \in 1..NLocal(ref) |-> [j \in 1..NLocal(ref) |->
            RSum([q \in 1..Len(qw.w) |->
                RProd(<<SF[i][q], SF[j][q], qw.w[q], g.integration_elements[e],
                        IF self.coefficient_function /= "None"
                        THEN EvalScalar(self.coefficient_function, e, mu)
                        ELSE ROne>>)])]]]

\* SF_GRADS = np.einsum('eij,pj->epi', jit, SF_GRAD)        (P1: constant)
ShapeGrads_P1(g) ==
    LET ref == g.reference_element
    IN  Arr([e \in 1..NumElements(g) |-> Arr([p \in 1..NLocal(ref) |-> Arr([i \in 1..g.dim |->
            RSum([j \in 1..g.dim |->
                RMul(g.jacobian_inverse_transposed[e][i][j],
                     LagrangeShapeFunctionsGrads(ref, p, j, <<>>))])])])])

\* SF_GRADS = np.einsum('eij,pjc->epic', jit, SF_GRAD(q))   (Q1: per point)
ShapeGrads_Q1(g, q) ==
    LET ref == g.reference_element
    IN  Arr([e \in 1..NumElements(g) |-> Arr([p \in 1..NLocal(ref) |-> Arr([i \in 1..g.dim |->
            Arr([c \in 1..Len(q) |->
                RSum([j \in 1..g.dim |->
                    RMul(g.jacobian_inverse_transposed[e][i][j],
                         LagrangeShapeFunctionsGrads(ref, p, j, q[c]))])])])])])

\* diffusion_constant / advection_constant: None, or a number
NoConstant == <<>>

\* SF_INTS *= constant, when the constant is not None
TimesConstant(X, constant) ==
    IF constant = NoConstant THEN X
    ELSE [e \in DOMAIN X |-> [i \in DOMAIN X[e] |-> [j \in DOMAIN X[e][i] |->
            RMul(X[e][i][j], constant)]]]

\* DiffusionOperatorP1: np.einsum('epi,eqi,e,e->epq', ...) (scalar d),
\* 'epi,eqj,e,eij->epq' (matrix d), 'epi,eqi,e->epq' (no d); times constant
DiffusionOperatorP1_SF_INTS(self, g, mu) ==
    LET G == ShapeGrads_P1(g)
        n == NLocal(g.reference_element)
        d == self.diffusion_function
    IN  TimesConstant(
          [e \in 1..NumElements(g) |-> [p \in 1..n |-> [q \in 1..n |->
            IF d /= "None" /\ d \in ScalarFunctions THEN
                RSum([i \in 1..g.dim |->
                    RProd(<<G[e][p][i], G[e][q][i], g.volumes[e], EvalScalar(d, e, mu)>>)])
            ELSE IF d /= "None" THEN
                RSum([i \in 1..g.dim |-> RSum([j \in 1..g.dim |->
                    RProd(<<G[e][p][i], G[e][q][j], g.volumes[e],
                            EvalMatrix(d, e, i, j, mu)>>)])])
            ELSE
                RSum([i \in 1..g.dim |->
                    RProd(<<G[e][p][i], G[e][q][i], g.volumes[e]>>)])]]],
          self.diffusion_constant)

\* DiffusionOperatorQ1: np.einsum('epic,eqic,c,e,e->epq', ...) (scalar d),
\* 'epic,eqjc,c,e,eij->epq' (matrix d), 'epic,eqic,c,e->epq' (no d)
DiffusionOperatorQ1_SF_INTS(self, g, mu) ==
    LET qw == quadrature(g.reference_element, 2)
        G  == ShapeGrads_Q1(g, qw.q)
        n  == NLocal(g.reference_element)
        d  == self.diffusion_function
    IN  TimesConstant(
          [e \in 1..NumElements(g) |-> [p \in 1..n |-> [q \in 1..n |->
            RSum([c \in 1..Len(qw.w) |->
              IF d /= "None" /\ d \in ScalarFunctions THEN
                RSum([i \in 1..g.dim |->
                    RProd(<<G[e][p][i][c], G[e][q][i][c], qw.w[c],
                            g.integration_elements[e], EvalScalar(d, e, mu)>>)])
              ELSE IF d /= "None" THEN
                RSum([i \in 1..g.dim |-> RSum([j \in 1..g.dim |->
                    RProd(<<G[e][p][i][c], G[e][q][j][c], qw.w[c],
                            g.integration_elements[e], EvalMatrix(d, e, i, j, mu)>>)])])
              ELSE
                RSum([i \in 1..g.dim |->
                    RProd(<<G[e][p][i][c], G[e][q][i][c], qw.w[c],
                            g.integration_elements[e]>>)])])]]],
          self.diffusion_constant)

\* AdvectionOperatorP1: - np.einsum('pc,eqi,c,e,ei->eqp', SFQ, SF_GRADS, w,
\* ie, D); the first local index is the gradient's, the second the value's
AdvectionOperatorP1_SF_INTS(self, g, mu) ==
    LET ref == g.reference_element
        qw  == quadrature(ref, 1)
        SFQ == ShapeValues(ref, qw.q)
        G   == ShapeGrads_P1(g)
        n   == NLocal(ref)
    IN  TimesConstant(
          [e \in 1..NumElements(g) |-> [q \in 1..n |-> [p \in 1..n |->
            RNeg(RSum([c \in 1..Len(qw.w) |-> RSum([i \in 1..g.dim |->
                RProd(<<SFQ[p][c], G[e][q][i], qw.w[c], g.integration_elements[e],
                        EvalVector(self.advection_function, e, i, mu)>>)])]))]]],
          self.advection_constant)

\* AdvectionOperatorQ1: - np.einsum('pc,eqic,c,e,ei->eqp', ...)
AdvectionOperatorQ1_SF_INTS(self, g, mu) ==
    LET ref == g.reference_element
        qw  == quadrature(ref, 2)
        SFQ == ShapeValues(ref, qw.q)
        G   == ShapeGrads_Q1(g, qw.q)
        n   == NLocal(ref)
    IN  TimesConstant(
          [e \in 1..NumElements(g) |-> [q \in 1..n |-> [p \in 1..n |->
            RNeg(RSum([c \in 1..Len(qw.w) |-> RSum([i \in 1..g.dim |->
                RProd(<<SFQ[p][c], G[e][q][i][c], qw.w[c], g.integration_elements[e],
                        EvalVector(self.advection_function, e, i, mu)>>)])]))]]],
          self.advection_constant)

\* Variant: the columns of the Dirichlet DOFs are never cleared.
L2Product_boundary_treatment_columns_kept(self, bi, INTS, I0, I1) ==
    IF has_dirichlet(bi) THEN
        LET rows == IF self.dirichlet_clear_rows
                    THEN np_where_zero(bi, I0, INTS) ELSE INTS
        IN  IF ~self.dirichlet_clear_diag
               /\ (self.dirichlet_clear_rows \/ self.dirichlet_clear_columns)
            THEN [INTS |-> np_hstack(rows, np_ones(Len(dirichlet_boundaries(bi)))),
                  I0 |-> np_hstack(I0, dirichlet_boundaries(bi)),
                  I1 |-> np_hstack(I1, dirichlet_boundaries(bi))]
            ELSE [INTS |-> rows, I0 |-> I0, I1 |-> I1]
    ELSE [INTS |-> INTS, I0 |-> I0, I1 |-> I1]

\* Variant: the unit diagonal is appended only when rows are cleared.
L2Product_boundary_treatment_rows_only(self, bi, INTS, I0, I1) ==
    IF has_dirichlet(bi) THEN
        LET rows == IF self.dirichlet_clear_rows
                    THEN np_where_zero(bi, I0, INTS) ELSE INTS
            cols == IF self.dirichlet_clear_columns
                    THEN np_where_zero(bi, I1, rows) ELSE rows
        IN  IF ~self.dirichlet_clear_diag /\ self.dirichlet_clear_rows
            THEN [INTS |-> np_hstack(cols, np_ones(Len(dirichlet_boundaries(bi)))),
                  I0 |-> np_hstack(I0, dirichlet_boundaries(bi)),
                  I1 |-> np_hstack(I1, dirichlet_boundaries(bi))]
            ELSE [INTS |-> cols, I0 |-> I0, I1 |-> I1]
    ELSE [INTS |-> INTS, I0 |-> I0, I1 |-> I1]

\* Boundary treatment of L2ProductP1/Q1 on the flat contribution arrays
L2Product_boundary_treatment(self, bi, INTS, I0, I1) ==
    IF has_dirichlet(bi) THEN
        LET rows == IF self.dirichlet_clear_rows
                    THEN np_where_zero(bi, I0, INTS) ELSE INTS
            cols == IF self.dirichlet_clear_columns
                    THEN np_where_zero(bi, I1, rows) ELSE rows
        IN  IF ~self.dirichlet_clear_diag
               /\ (self.dirichlet_clear_rows \/ self.dirichlet_clear_columns)
            THEN [INTS |-> np_hstack(cols, np_ones(Len(dirichlet_boundaries(bi)))),
                  I0 |-> np_hstack(I0, dirichlet_boundaries(bi)),
                  I1 |-> np_hstack(I1, dirichlet_boundaries(bi))]
            ELSE [INTS |-> cols, I0 |-> I0, I1 |-> I1]
    ELSE [INTS |-> INTS, I0 |-> I0, I1 |-> I1]

\* Boundary treatment of DiffusionOperatorP1/Q1 and AdvectionOperatorP1/Q1:
\* rows are always cleared
Operator_boundary_treatment(self, bi, INTS, I0, I1) ==
    IF has_dirichlet(bi) THEN
        LET rows == np_where_zero(bi, I0, INTS)
            cols == IF self.dirichlet_clear_columns
                    THEN np_where_zero(bi, I1, rows) ELSE rows
        IN  IF ~self.dirichlet_clear_diag
            THEN [INTS |-> np_hstack(cols, np_ones(Len(dirichlet_boundaries(bi)))),
                  I0 |-> np_hstack(I0, dirichlet_boundaries(bi)),
                  I1 |-> np_hstack(I1, dirichlet_boundaries(bi))]
            ELSE [INTS |-> cols, I0 |-> I0, I1 |-> I1]
    ELSE [INTS |-> INTS, I0 |-> I0, I1 |-> I1]

MatrixClasses == {"L2ProductP1", "L2ProductQ1", "DiffusionOperatorP1",
                  "DiffusionOperatorQ1", "AdvectionOperatorP1", "AdvectionOperatorQ1"}

\* the einsum result SF_INTS[e][i][j] of the operator's class
LocalBlocks(self, g, mu) ==
    IF self.class \in {"L2ProductP1", "L2ProductQ1"} THEN L2Product_SF_INTS(self, g, mu)
    ELSE IF self.class = "DiffusionOperatorP1" THEN DiffusionOperatorP1_SF_INTS(self, g, mu)
    ELSE IF self.class = "DiffusionOperatorQ1" THEN DiffusionOperatorQ1_SF_INTS(self, g, mu)
    ELSE IF self.class = "AdvectionOperatorP1" THEN AdvectionOperatorP1_SF_INTS(self, g, mu)
    ELSE AdvectionOperatorQ1_SF_INTS(self, g, mu)

\* the repeat/tile count of the class: g.dim + 1 (P1), 4 (Q1)
IndexRepeat(self, g) ==
    IF self.class \in {"L2ProductQ1", "DiffusionOperatorQ1", "AdvectionOperatorQ1"}
    THEN 4 ELSE g.dim + 1

\* Variant: the column indices built with np.repeat like the row indices.
GlobalCols_repeated(self, g) == np_repeat_ravel(g.subentities, IndexRepeat(self, g))

\* SF_I0 = np.repeat(g.subentities(0, g.dim), n, axis=1).ravel()
GlobalRows(self, g) == np_repeat_ravel(g.subentities, IndexRepeat(self, g))

\* SF_I1 = np.tile(g.subentities(0, g.dim), [1, n]).ravel()
GlobalCols(self, g) == np_tile_ravel(g.subentities, IndexRepeat(self, g))

\* the Dirichlet treatment of the assembler's class applied to the triplets
boundary_treatment(self, bi, INTS, I0, I1) ==
    IF self.class \in {"L2ProductP1", "L2ProductQ1"}
    THEN L2Product_boundary_treatment(self, bi, INTS, I0, I1)
    ELSE Operator_boundary_treatment(self, bi, INTS, I0, I1)

\* A = coo_matrix((SF_INTS, (SF_I0, SF_I1)), shape=(n, n)); csc_matrix(A)
csc_matrix(bt, n) ==
    [raised |-> "none",
     value |-> coo_matrix(bt.INTS, bt.I0, bt.I1, n),
     stored |-> csc_stored(bt.INTS, bt.I0, bt.I1)]

\* _assemble(mu) of the six matrix assemblers -> the assembled matrix.
\* AdvectionOperatorQ1 calls self.advection_function even when it is None.
\* With boundary_info None, `if bi.has_dirichlet` raises AttributeError.
MatrixOperator_assemble(self, g, bi, mu) ==
    IF self.class = "AdvectionOperatorQ1" /\ self.advection_function = "None"
    THEN [raised |-> "TypeError", value |-> <<>>, stored |-> {}]
    ELSE IF bi = None
    THEN [raised |-> "AttributeError", value |-> <<>>, stored |-> {}]
    ELSE csc_matrix(boundary_treatment(self, bi,
                                       Ravel3(LocalBlocks(self, g, mu), NumElements(g),
                                              NLocal(g.reference_element)),
                                       GlobalRows(self, g), GlobalCols(self, g)),
                    NumDofs(g))

(***************************************************************************)
(* State machine of the matrix assemblers: an operator is constructed on   *)
(* the grid and boundary info, then assembled for a parameter.             *)
(***************************************************************************)
NoOp == [class |-> "None"]

NoRet == [call |-> "none"]

CoefficientChoices == {"None", "elementwise", "parametric"}

DiffusionChoices == {"None", "elementwise", "tensor"}

AdvectionChoices == {"None", "skew"}

ConstantChoices == {NoConstant, R(0), R(2)}

InitAssemble ==
    /\ grid \in Grids
    /\ boundary_info \in BoundaryInfos(grid) \cup {None}
    /\ op = NoOp
    /\ ret = NoRet

L2ProductP1_init ==
    \E rows \in BOOLEAN, cols \in BOOLEAN, diag \in BOOLEAN, cf \in CoefficientChoices :
        /\ op = NoOp
        /\ grid.reference_element \in {"line", "triangle"}
        /\ op' = [class |-> "L2ProductP1", dirichlet_clear_rows |-> rows,
                  dirichlet_clear_columns |-> cols, dirichlet_clear_diag |-> diag,
                  coefficient_function |-> cf]
        /\ ret' = NoRet
        /\ UNCHANGED <<grid, boundary_info>>

L2ProductQ1_init ==
    \E rows \in BOOLEAN, cols \in BOOLEAN, diag \in BOOLEAN, cf \in CoefficientChoices :
        /\ op = NoOp
        /\ grid.reference_element \in {"square"}
        /\ op' = [class |-> "L2ProductQ1", dirichlet_clear_rows |-> rows,
                  dirichlet_clear_columns |-> cols, dirichlet_clear_diag |-> diag,
                  coefficient_function |-> cf]
        /\ ret' = NoRet
        /\ UNCHANGED <<grid, boundary_info>>

DiffusionOperatorP1_init ==
    \E df \in DiffusionChoices, dc \in ConstantChoices, cols \in BOOLEAN, diag \in BOOLEAN :
        /\ op = NoOp
        /\ grid.reference_element \in {"triangle", "line"}
        /\ df \in MatrixFunctions => grid.dim = 2
        /\ op' = [class |-> "DiffusionOperatorP1", diffusion_function |-> df,
                  diffusion_constant |-> dc, dirichlet_clear_columns |-> cols,
                  dirichlet_clear_diag |-> diag]
        /\ ret' = NoRet
        /\ UNCHANGED <<grid, boundary_info>>

DiffusionOperatorQ1_init ==
    \E df \in DiffusionChoices, dc \in ConstantChoices, cols \in BOOLEAN, diag \in BOOLEAN :
        /\ op = NoOp
        /\ grid.reference_element \in {"square"}
        /\ op' = [class |-> "DiffusionOperatorQ1", diffusion_function |-> df,
                  diffusion_constant |-> dc, dirichlet_clear_columns |-> cols,
                  dirichlet_clear_diag |-> diag]
        /\ ret' = NoRet
        /\ UNCHANGED <<grid, boundary_info>>

\* advection_function = advection_function or ConstantFunction(ones)
AdvectionOperatorP1_init ==
    \E af \in AdvectionChoices, ac \in {NoConstant, R(2)}, cols \in BOOLEAN, diag \in BOOLEAN :
        /\ op = NoOp
        /\ grid.reference_element \in {"triangle", "line"}
        /\ op' = [class |-> "AdvectionOperatorP1",
                  advection_function |-> IF af = "None" THEN "ones" ELSE af,
                  advection_constant |-> ac, dirichlet_clear_columns |-> cols,
                  dirichlet_clear_diag |-> diag]
        /\ ret' = NoRet
        /\ UNCHANGED <<grid, boundary_info>>

AdvectionOperatorQ1_init ==
    \E af \in AdvectionChoices, ac \in {NoConstant, R(2)}, cols \in BOOLEAN, diag \in BOOLEAN :
        /\ op = NoOp
        /\ grid.reference_element \in {"square"}
        /\ op' = [class |-> "AdvectionOperatorQ1", advection_function |-> af,
                  advection_constant |-> ac, dirichlet_clear_columns |-> cols,
                  dirichlet_clear_diag |-> diag]
        /\ ret' = NoRet
        /\ UNCHANGED <<grid, boundary_info>>

\* op.assemble(mu)
assemble ==
    \E mu \in Mus :
        /\ op.class \in MatrixClasses
        /\ ret = NoRet
        /\ ret' = [call |-> "assemble", mu |-> mu] @@
                  MatrixOperator_assemble(op, grid, boundary_info, mu)
        /\ UNCHANGED <<grid, boundary_info, op>>

NextAssemble ==
    \/ L2ProductP1_init
    \/ L2ProductQ1_init
    \/ DiffusionOperatorP1_init
    \/ DiffusionOperatorQ1_init
    \/ AdvectionOperatorP1_init
    \/ AdvectionOperatorQ1_init
    \/ assemble

SpecAssemble == InitAssemble /\ [][NextAssemble]_vars

(***************************************************************************)
(* Properties of the matrix assemblers.                                    *)
(***************************************************************************)
IsL2Product(self) == self.class \in {"L2ProductP1", "L2ProductQ1"}

\* rows are cleared by flag (L2Product*) or always (Diffusion*, Advection*)
RowsCleared(self) == IF IsL2Product(self) THEN self.dirichlet_clear_rows ELSE TRUE

Assembled == ret.call = "assemble" /\ ret.raised = "none"

\* no boundary treatment acts: no Dirichlet DOF, or an L2 product that
\* clears neither rows nor columns
TreatmentDisabled ==
    \/ ~has_dirichlet(boundary_info)
    \/ IsL2Product(op) /\ ~op.dirichlet_clear_rows /\ ~op.dirichlet_clear_columns

\* sum of block[e][i][j] over all elements e and local pairs (i, j) with
\* subentities[e][i] = r and subentities[e][j] = c
LocalSum(B, g, r, c) ==
    RSum([e \in 1..NumElements(g) |->
        RSum([i \in 1..NLocal(g.reference_element) |->
            RSum([j \in 1..NLocal(g.reference_element) |->
                IF g.subentities[e][i] = r /\ g.subentities[e][j] = c
                THEN B[e][i][j] ELSE RZero])])])

\* C1: with boundary treatment disabled, entry (r, c) of every assembled
\* matrix is the sum of the local block values of all (element, i, j) that
\* map to (r, c): each contribution is added exactly once, and an entry
\* without contribution is 0.
C1_ScatterSumsLocalBlocks ==
    (Assembled /\ TreatmentDisabled) =>
        \A r \in 1..NumDofs(grid), c \in 1..NumDofs(grid) :
            ret.value[r][c] = LocalSum(LocalBlocks(op, grid, ret.mu), grid, r, c)

\* C1 witness: an advection matrix on the two-triangle grid without
\* Dirichlet DOFs, whose entry (2, 3) collects the contributions of both
\* elements and differs from its transpose entry.
C1_Witness ==
    /\ Assembled
    /\ grid = GridTria2
    /\ boundary_info = EmptyBoundaryInfo
    /\ op.class = "AdvectionOperatorP1"
    /\ ret.value[2][3] /= RZero
    /\ ret.value[2][3] /= ret.value[3][2]
    /\ ret.value[1][4] = RZero

\* C2: on a grid with Dirichlet DOFs, when rows or columns are cleared and
\* dirichlet_clear_diag is False, every Dirichlet diagonal entry is exactly
\* 1, cleared Dirichlet rows are 0 off the diagonal, and (when columns are
\* cleared) Dirichlet columns are 0 off the diagonal -- also when only the
\* columns are cleared.
C2_UnitDirichletDiagonal ==
    (/\ Assembled
     /\ has_dirichlet(boundary_info)
     /\ ~op.dirichlet_clear_diag
     /\ (RowsCleared(op) \/ op.dirichlet_clear_columns)) =>
        \A d \in boundary_info.dirichlet :
            /\ ret.value[d][d] = ROne
            /\ RowsCleared(op) =>
                \A c \in 1..NumDofs(grid) : c /= d => ret.value[d][c] = RZero
            /\ op.dirichlet_clear_columns =>
                \A r \in 1..NumDofs(grid) : r /= d => ret.value[r][d] = RZero

\* C2 witness: an L2 product that clears only the columns; the Dirichlet
\* row keeps a non-zero off-diagonal entry and the diagonal entry is 1.
C2_Witness ==
    /\ Assembled
    /\ IsL2Product(op)
    /\ ~op.dirichlet_clear_rows /\ op.dirichlet_clear_columns
    /\ ~op.dirichlet_clear_diag
    /\ \E d \in boundary_info.dirichlet :
        /\ ret.value[d][d] = ROne
        /\ \E c \in 1..NumDofs(grid) : c /= d /\ ret.value[d][c] /= RZero

(***************************************************************************)
(* Nonlinear reaction operator  L(u, mu)(x) = q(x, mu) * c_nl(u(x, mu))    *)
(* and its element-weighted variant.                                       *)
(***************************************************************************)
\* reaction functions c_nl with their derivatives, evaluated at a value u
ReactionFunctions == {"identity", "square"}

EvalReaction(f, u, mu) == IF f = "identity" THEN u ELSE RMul(u, u)

EvalReactionDerivative(f, u, mu) == IF f = "identity" THEN ROne ELSE RMul(R(2), u)

\* state vectors U: one value per DOF
StateValues == {0, 1}

StateVectors(g) == [1..NumDofs(g) -> StateValues]

\* element weights rho: one weight per element
RhoValues == {0, 1, 2}

Rhos(g) == [1..NumElements(g) -> RhoValues]

\* what a call returns: the exception raised ("none" if it returned), the
\* global result, whether a pair (result, list) was returned, and the list
Raises(exc) == [raised |-> exc, value |-> <<>>, pair |-> FALSE, items |-> <<>>]

Returns(v) == [raised |-> "none", value |-> v, pair |-> FALSE, items |-> <<>>]

ReturnsPair(v, l) == [raised |-> "none", value |-> v, pair |-> TRUE, items |-> l]

\* np.reshape(wert, (3, 1)) raises ValueError unless wert has 3 entries,
\* one per quadrature point of the order-2 rule
ReshapeFails(g) == Len(quadrature(g.reference_element, 2).w) /= 3

\* wert = np.dot(u_dofs, SF) with u_dofs = dofs[subentities[e]]: the value
\* of the finite element function at the quadrature points of element e
wert(g, dofs, e) ==
    LET ref == g.reference_element
        qw  == quadrature(ref, 2)
        SF  == ShapeValues(ref, qw.q)
    IN  Arr([i \in 1..Len(qw.w) |->
            RSum([p \in 1..NLocal(ref) |-> RMul(R(dofs[g.subentities[e][p]]), SF[p][i])])])

\* c_nl[e] (deriv = FALSE) or c_nl_prime[e] (deriv = TRUE): np.zeros, filled
\* by the loop for the elements the loop visits
c_nl(self, g, U, mu, visited, deriv) ==
    Arr([e \in 1..NumElements(g) |->
        IF e \in visited
        THEN LET v == wert(g, U, e)
             IN  Arr([i \in 1..Len(v) |->
                    IF deriv THEN EvalReactionDerivative(self.reaction_function, v[i], mu)
                    ELSE EvalReaction(self.reaction_function, v[i], mu)])
        ELSE Arr([i \in 1..NLocal(g.reference_element) |-> RZero])])

\* np.einsum('ji,ei,e,e,i->ej', SF, c_nl, C, volumes, w)
Reaction_apply_SF_INTS(self, g, U, mu, visited) ==
    LET ref == g.reference_element
        qw  == quadrature(ref, 2)
        SF  == ShapeValues(ref, qw.q)
        cnl == c_nl(self, g, U, mu, visited, FALSE)
    IN  Arr([e \in 1..NumElements(g) |-> Arr([j \in 1..NLocal(ref) |->
            RSum([i \in 1..Len(qw.w) |->
                RProd(<<SF[j][i], cnl[e][i], EvalScalar(self.reaction_coefficient, e, mu),
                        g.volumes[e], qw.w[i]>>)])])])

\* np.einsum('pi,qi,ei,e,e,i->epq', SF, SF, c_nl_prime, C, volumes, w)
Reaction_jacobian_SF_INTS(self, g, U, mu) ==
    LET ref == g.reference_element
        qw  == quadrature(ref, 2)
        SF  == ShapeValues(ref, qw.q)
        cnl == c_nl(self, g, U, mu, 1..NumElements(g), TRUE)
    IN  Arr([e \in 1..NumElements(g) |-> Arr([p \in 1..NLocal(ref) |->
            Arr([q \in 1..NLocal(ref) |->
                RSum([i \in 1..Len(qw.w) |->
                    RProd(<<SF[p][i], SF[q][i], cnl[e][i],
                            EvalScalar(self.reaction_coefficient, e, mu),
                            g.volumes[e], qw.w[i]>>)])])])])

\* Variant: the slice of the first element, whatever e.
ElementSlice_first(X, n, e) == SubSeq(X, 1, n)

\* X[n*e : n*(e+1)] for the element numbered e from 1
ElementSlice(X, n, e) == SubSeq(X, n * (e - 1) + 1, n * e)

\* NonlinearReactionOperator.apply(U, mu, element_contribution).  The pair
\* (A, A_e_list) is returned only if the boundary info has Dirichlet DOFs.
NonlinearReactionOperator_apply(self, g, bi, U, mu, element_contribution) ==
    IF ReshapeFails(g) THEN Raises("ValueError")
    ELSE
        LET INTS == Ravel2(Reaction_apply_SF_INTS(self, g, U, mu, 1..NumElements(g)),
                           NumElements(g), NLocal(g.reference_element))
            I == Ravel2(g.subentities, NumElements(g), NLocal(g.reference_element))
            A    == coo_vector(INTS, I, NumDofs(g))
        IN  IF element_contribution /\ has_dirichlet(bi)
            THEN ReturnsPair(ClearDofs(A, bi),
                    [e \in 1..NumElements(g) |->
                        ClearDofs(coo_vector(ElementSlice(INTS, 3, e),
                                             ElementSlice(I, 3, e), NumDofs(g)), bi)])
            ELSE Returns(IF has_dirichlet(bi) THEN ClearDofs(A, bi) ELSE A)

\* NonlinearReactionOperator.jacobian(U, mu, element_contribution)
NonlinearReactionOperator_jacobian(self, g, bi, U, mu, element_contribution) ==
    IF ReshapeFails(g) THEN Raises("ValueError")
    ELSE
        LET I0   == np_repeat_ravel(g.subentities, g.dim + 1)
            I1   == np_tile_ravel(g.subentities, g.dim + 1)
            raw  == Ravel3(Reaction_jacobian_SF_INTS(self, g, U, mu),
                           NumElements(g), NLocal(g.reference_element))
            INTS == IF has_dirichlet(bi) THEN np_where_zero(bi, I0, raw) ELSE raw
            A    == coo_matrix(INTS, I0, I1, NumDofs(g))
        IN  IF element_contribution
            THEN ReturnsPair(A,
                    [e \in 1..NumElements(g) |->
                        coo_matrix(ElementSlice(INTS, 9, e), ElementSlice(I0, 9, e),
                                   ElementSlice(I1, 9, e), NumDofs(g))])
            ELSE Returns(A)

\* Variant: only the first element with a non-zero weight is kept.
NonZeroIndices_first(rho) ==
    {e \in DOMAIN rho : rho[e] /= 0 /\ \A f \in DOMAIN rho : rho[f] /= 0 => e <= f}

\* NonZeroIndices = np.where(self.rho != 0)[0]
NonZeroIndices(rho) == {e \in DOMAIN rho : rho[e] /= 0}

\* the loop  for e in NonZeroIndices: A_e = A_e + rho[e] * coo_matrix(...).toarray()
\* over the first k non-zero indices idx; the first sum turns A_e dense
RECURSIVE element_apply_sum(_, _, _, _, _, _)
element_apply_sum(rho, INTS, I, idx, k, n) ==
    IF k = 0 THEN ZeroVec(n)
    ELSE VecAdd(element_apply_sum(rho, INTS, I, idx, k - 1, n),
                VecScale(R(rho[idx[k]]),
                         coo_vector(ElementSlice(INTS, 3, idx[k]),
                                    ElementSlice(I, 3, idx[k]), n)))

\* element_NonlinearReactionOperator.apply(U, mu).  With no non-zero weight
\* the loops are not entered: nothing is reshaped, and A_e is still the empty
\* coo_matrix when A_e[DI] = 0 is executed; coo_matrix has no item
\* assignment, so the statement raises TypeError.
element_NonlinearReactionOperator_apply(self, g, bi, U, mu) ==
    LET NZ == NonZeroIndices(self.rho)
    IN  IF NZ /= {} /\ ReshapeFails(g) THEN Raises("ValueError")
        ELSE IF NZ = {} THEN Raises("TypeError")
        ELSE
            LET INTS == Ravel2(Reaction_apply_SF_INTS(self, g, U, mu, NZ),
                               NumElements(g), NLocal(g.reference_element))
                I == Ravel2(g.subentities, NumElements(g), NLocal(g.reference_element))
                idx  == SortedSeq(NZ)
                A_e  == element_apply_sum(self.rho, INTS, I, idx, Len(idx), NumDofs(g))
            IN  Returns(ClearDofs(A_e, bi))

\* the loop  for e in NonZeroIndices: A_e_op = A_e_op + rho[e] * coo_matrix(...)
RECURSIVE element_jacobian_sum(_, _, _, _, _, _, _)
element_jacobian_sum(rho, INTS, I0, I1, idx, k, n) ==
    IF k = 0 THEN ZeroMat(n)
    ELSE MatAdd(element_jacobian_sum(rho, INTS, I0, I1, idx, k - 1, n),
                MatScale(R(rho[idx[k]]),
                         coo_matrix(ElementSlice(INTS, 9, idx[k]), ElementSlice(I0, 9, idx[k]),
                                    ElementSlice(I1, 9, idx[k]), n)))

\* element_NonlinearReactionOperator.jacobian(U, mu): c_nl_prime is computed
\* on every element, the sum runs over the elements with non-zero weight
element_NonlinearReactionOperator_jacobian(self, g, bi, U, mu) ==
    IF ReshapeFails(g) THEN Raises("ValueError")
    ELSE
        LET I0   == np_repeat_ravel(g.subentities, g.dim + 1)
            I1   == np_tile_ravel(g.subentities, g.dim + 1)
            raw  == Ravel3(Reaction_jacobian_SF_INTS(self, g, U, mu),
                           NumElements(g), NLocal(g.reference_element))
            INTS == IF has_dirichlet(bi) THEN np_where_zero(bi, I0, raw) ELSE raw
            idx  == SortedSeq(NonZeroIndices(self.rho))
        IN  Returns(element_jacobian_sum(self.rho, INTS, I0, I1, idx, Len(idx), NumDofs(g)))

(***************************************************************************)
(* Quadratic tracking functional                                           *)
(*   j(u, mu) = 1/2 ||u - u_d||^2_{L^2} + 1/2 ||mu - mu_d||^2_2            *)
(* and its element-weighted variant.                                       *)
(***************************************************************************)
\* parameter values mu, mu_d of the functional
ParameterValues == Mus \cup {<<3>>, <<0, 4>>}

\* target states u_d
TargetStates(g) ==
    {U \in StateVectors(g) : \A d \in 1..NumDofs(g) : d > 2 => U[d] = 0}

\* Variant: the state itself instead of its distance to the target.
dofs_without_target(U, U_d) == U

\* dofs = U - U_d
dofs(U, U_d) == [d \in DOMAIN U |-> U[d] - U_d[d]]

\* diff = mu.to_numpy() - self.mu_d.to_numpy()
parameter_diff(mu, mu_d) == [k \in DOMAIN mu |-> R(mu[k] - mu_d[k])]

\* np.linalg.norm(mu.to_numpy() - self.mu_d.to_numpy())**2, taken as the
\* sum of the squared components
norm_parameter(mu, mu_d) ==
    LET diff == parameter_diff(mu, mu_d)
    IN  RSum([k \in DOMAIN diff |-> RMul(diff[k], diff[k])])

\* Variant: the element volume itself, not its share of the grid volume.
volume_share_unnormalised(g, e) == g.volumes[e]

\* grid_volumes[e] / volume_grid
volume_share(g, e) == RDiv(g.volumes[e], RSum(g.volumes))

\* F[e] = quadatric_function(wert) = wert * wert on the visited elements,
\* SF_INTS = np.einsum('ei,e,i->e', F, volumes, w)
Functional_apply_SF_INTS(g, d, e) ==
    LET qw == quadrature(g.reference_element, 2)
        v  == wert(g, d, e)
    IN  RSum([i \in 1..Len(qw.w) |-> RProd(<<v[i], v[i], g.volumes[e], qw.w[i]>>)])

\* quadratic_functional.apply(U, mu, element_contribution)
quadratic_functional_apply(self, g, U, mu, element_contribution) ==
    IF ReshapeFails(g) THEN Raises("ValueError")
    ELSE
        LET d    == dofs(U, self.u_d)
            INTS == Arr([e \in 1..NumElements(g) |-> Functional_apply_SF_INTS(g, d, e)])
            np   == norm_parameter(mu, self.mu_d)
            A    == RAdd(RMul(Half, RSum(INTS)), RMul(Half, np))
        IN  IF element_contribution
            THEN ReturnsPair(A,
                    [e \in 1..NumElements(g) |->
                        RAdd(RMul(Half, INTS[e]),
                             RMul(RMul(Half, volume_share(g, e)), np))])
            ELSE Returns(A)

\* F[e] = 2 * wert, SF_INTS = np.einsum('ji,ei,e,i->ej', SF, F, volumes, w)
Functional_jacobian_SF_INTS(g, d) ==
    LET ref == g.reference_element
        qw  == quadrature(ref, 2)
        SF  == ShapeValues(ref, qw.q)
    IN  Arr([e \in 1..NumElements(g) |->
            LET v == wert(g, d, e)
            IN  Arr([j \in 1..NLocal(ref) |->
                    RSum([i \in 1..Len(qw.w) |->
                        RProd(<<SF[j][i], RMul(R(2), v[i]), g.volumes[e], qw.w[i]>>)])])])

\* quadratic_functional.jacobian(U, mu, element_contribution): no boundary
\* treatment, the functional holds no boundary info
quadratic_functional_jacobian(self, g, U, mu, element_contribution) ==
    IF ReshapeFails(g) THEN Raises("ValueError")
    ELSE
        LET INTS == Ravel2(Functional_jacobian_SF_INTS(g, dofs(U, self.u_d)),
                           NumElements(g), NLocal(g.reference_element))
            I    == Ravel2(g.subentities, NumElements(g), NLocal(g.reference_element))
            A    == coo_vector(INTS, I, NumDofs(g))
        IN  IF element_contribution
            THEN ReturnsPair(A,
                    [e \in 1..NumElements(g) |->
                        coo_vector(ElementSlice(INTS, 3, e), ElementSlice(I, 3, e),
                                   NumDofs(g))])
            ELSE Returns(A)

\* quadratic_functional.d_mu(mu, index, element_contribution); index counts
\* from 1.  The per-element items are shares of the whole vector diff.
quadratic_functional_d_mu(self, g, mu, index, element_contribution) ==
    LET value == R(mu[index] - self.mu_d[index])
        diff  == parameter_diff(mu, self.mu_d)
    IN  IF element_contribution
        THEN ReturnsPair(value,
                [e \in 1..NumElements(g) |-> VecScale(volume_share(g, e), diff)])
        ELSE Returns(value)

\* element_quadratic_functional.apply(U, mu):
\* rho[NonZeroIndices].dot(0.5 * SF_INTS + 0.5 * volumes/volume_grid * norm)
element_quadratic_functional_apply(self, g, U, mu) ==
    LET NZ == NonZeroIndices(self.rho)
    IN  IF NZ /= {} /\ ReshapeFails(g) THEN Raises("ValueError")
        ELSE
            LET d   == dofs(U, self.u_d)
                idx == SortedSeq(NZ)
                np  == norm_parameter(mu, self.mu_d)
            IN  Returns(RSum([k \in 1..Len(idx) |->
                    RMul(R(self.rho[idx[k]]),
                         RAdd(RMul(Half, Functional_apply_SF_INTS(g, d, idx[k])),
                              RMul(RMul(Half, volume_share(g, idx[k])), np)))]))

\* element_quadratic_functional.d_mu(mu, index):
\* sum(volumes[NonZeroIndices]) / sum(volumes) * (mu[index] - mu_d[index]);
\* the weights rho select the elements and do not scale them
element_quadratic_functional_d_mu(self, g, mu, index) ==
    LET idx == SortedSeq(NonZeroIndices(self.rho))
    IN  Returns(RMul(RDiv(RSum([k \in 1..Len(idx) |-> g.volumes[idx[k]]]), RSum(g.volumes)),
                     R(mu[index] - self.mu_d[index])))

(***************************************************************************)
(* State machine of the nonlinear operators and functionals: an object is  *)
(* constructed on the grid (the reaction operators also on a boundary      *)
(* info), then one of its methods is called.                               *)
(***************************************************************************)
NonlinearGrids == {GridTria2, GridLine2}

ReactionCoefficients == {"parametric"}

InitNonlinear ==
    /\ grid \in NonlinearGrids
    /\ boundary_info = EmptyBoundaryInfo
    /\ op = NoOp
    /\ ret = NoRet

NonlinearReactionOperator_init ==
    \E bi \in BoundaryInfos(grid), rc \in ReactionCoefficients, rf \in ReactionFunctions :
        /\ op = NoOp
        /\ op' = [class |-> "NonlinearReactionOperator", reaction_coefficient |-> rc,
                  reaction_function |-> rf]
        /\ boundary_info' = bi
        /\ UNCHANGED <<grid, ret>>

element_NonlinearReactionOperator_init ==
    \E bi \in BoundaryInfos(grid), rc \in ReactionCoefficients, rf \in ReactionFunctions,
       rho \in Rhos(grid) :
        /\ op = NoOp
        /\ op' = [class |-> "element_NonlinearReactionOperator",
                  reaction_coefficient |-> rc, reaction_function |-> rf, rho |-> rho]
        /\ boundary_info' = bi
        /\ UNCHANGED <<grid, ret>>

quadratic_functional_init ==
    \E u_d \in TargetStates(grid), mu_d \in ParameterValues :
        /\ op = NoOp
        /\ op' = [class |-> "quadratic_functional", u_d |-> u_d, mu_d |-> mu_d]
        /\ UNCHANGED <<grid, boundary_info, ret>>

element_quadratic_functional_init ==
    \E u_d \in TargetStates(grid), mu_d \in ParameterValues, rho \in Rhos(grid) :
        /\ op = NoOp
        /\ op' = [class |-> "element_quadratic_functional", u_d |-> u_d, mu_d |-> mu_d,
                  rho |-> rho]
        /\ UNCHANGED <<grid, boundary_info, ret>>

\* the inputs of a call, kept with what it returned
Inputs(call, U, mu, element_contribution) ==
    [call |-> call, U |-> U, mu |-> mu, element_contribution |-> element_contribution]

NonlinearReactionOperator_apply_call ==
    \E U \in StateVectors(grid), mu \in Mus, ec \in BOOLEAN :
        /\ op.class = "NonlinearReactionOperator"
        /\ ret = NoRet
        /\ ret' = Inputs("apply", U, mu, ec)
                   @@ NonlinearReactionOperator_apply(op, grid, boundary_info, U, mu, ec)
        /\ UNCHANGED <<grid, boundary_info, op>>

NonlinearReactionOperator_jacobian_call ==
    \E U \in StateVectors(grid), mu \in Mus, ec \in BOOLEAN :
        /\ op.class = "NonlinearReactionOperator"
        /\ ret = NoRet
        /\ ret' = Inputs("jacobian", U, mu, ec)
                   @@ NonlinearReactionOperator_jacobian(op, grid, boundary_info, U, mu, ec)
        /\ UNCHANGED <<grid, boundary_info, op>>

element_NonlinearReactionOperator_apply_call ==
    \E U \in StateVectors(grid), mu \in Mus :
        /\ op.class = "element_NonlinearReactionOperator"
        /\ ret = NoRet
        /\ ret' = Inputs("apply", U, mu, FALSE)
                   @@ element_NonlinearReactionOperator_apply(op, grid, boundary_info, U, mu)
        /\ UNCHANGED <<grid, boundary_info, op>>

element_NonlinearReactionOperator_jacobian_call ==
    \E U \in StateVectors(grid), mu \in Mus :
        /\ op.class = "element_NonlinearReactionOperator"
        /\ ret = NoRet
        /\ ret' = Inputs("jacobian", U, mu, FALSE)
                   @@ element_NonlinearReactionOperator_jacobian(op, grid, boundary_info, U, mu)
        /\ UNCHANGED <<grid, boundary_info, op>>

\* mu and mu_d are parameters of the same parameter space
quadratic_functional_apply_call ==
    \E U \in StateVectors(grid), mu \in ParameterValues, ec \in BOOLEAN :
        /\ op.class = "quadratic_functional"
        /\ ret = NoRet
        /\ Len(mu) = Len(op.mu_d)
        /\ ret' = Inputs("apply", U, mu, ec) @@ quadratic_functional_apply(op, grid, U, mu, ec)
        /\ UNCHANGED <<grid, boundary_info, op>>

quadratic_functional_jacobian_call ==
    \E U \in StateVectors(grid), mu \in ParameterValues, ec \in BOOLEAN :
        /\ op.class = "quadratic_functional"
        /\ ret = NoRet
        /\ Len(mu) = Len(op.mu_d)
        /\ ret' = Inputs("jacobian", U, mu, ec)
                   @@ quadratic_functional_jacobian(op, grid, U, mu, ec)
        /\ UNCHANGED <<grid, boundary_info, op>>

quadratic_functional_d_mu_call ==
    \E mu \in ParameterValues, ec \in BOOLEAN :
        /\ op.class = "quadratic_functional"
        /\ ret = NoRet
        /\ Len(mu) = Len(op.mu_d)
        /\ \E index \in 1..Len(mu) :
              ret' = [call |-> "d_mu", mu |-> mu, index |-> index,
                      element_contribution |-> ec]
                     @@ quadratic_functional_d_mu(op, grid, mu, index, ec)
        /\ UNCHANGED <<grid, boundary_info, op>>

element_quadratic_functional_apply_call ==
    \E U \in StateVectors(grid), mu \in ParameterValues :
        /\ op.class = "element_quadratic_functional"
        /\ ret = NoRet
        /\ Len(mu) = Len(op.mu_d)
        /\ ret' = Inputs("apply", U, mu, FALSE)
                   @@ element_quadratic_functional_apply(op, grid, U, mu)
        /\ UNCHANGED <<grid, boundary_info, op>>

element_quadratic_functional_d_mu_call ==
    \E mu \in ParameterValues :
        /\ op.class = "element_quadratic_functional"
        /\ ret = NoRet
        /\ Len(mu) = Len(op.mu_d)
        /\ \E index \in 1..Len(mu) :
              ret' = [call |-> "d_mu", mu |-> mu, index |-> index,
                      element_contribution |-> FALSE]
                     @@ element_quadratic_functional_d_mu(op, grid, mu, index)
        /\ UNCHANGED <<grid, boundary_info, op>>

NextReaction ==
    \/ NonlinearReactionOperator_init
    \/ element_NonlinearReactionOperator_init
    \/ NonlinearReactionOperator_apply_call
    \/ NonlinearReactionOperator_jacobian_call
    \/ element_NonlinearReactionOperator_apply_call
    \/ element_NonlinearReactionOperator_jacobian_call

SpecReaction == InitNonlinear /\ [][NextReaction]_vars

NextFunctional ==
    \/ quadratic_functional_init
    \/ element_quadratic_functional_init
    \/ quadratic_functional_apply_call
    \/ quadratic_functional_jacobian_call
    \/ quadratic_functional_d_mu_call
    \/ element_quadratic_functional_apply_call
    \/ element_quadratic_functional_d_mu_call

SpecFunctional == InitNonlinear /\ [][NextFunctional]_vars

NextElementContribution ==
    \/ NonlinearReactionOperator_init
    \/ quadratic_functional_init
    \/ NonlinearReactionOperator_apply_call
    \/ NonlinearReactionOperator_jacobian_call
    \/ quadratic_functional_apply_call
    \/ quadratic_functional_jacobian_call

SpecElementContribution == InitNonlinear /\ [][NextElementContribution]_vars

(***************************************************************************)
(* Properties of the nonlinear operators and functionals.                  *)
(***************************************************************************)
IsCall(class, call) == op.class = class /\ ret.call = call

Returned == ret.call /= "none" /\ ret.raised = "none"

AllOnes(rho) == \A e \in DOMAIN rho : rho[e] = 1

\* sum of the per-element vectors / matrices of a returned list
ItemsSumVec(items, n) == [d \in 1..n |-> RSum([e \in DOMAIN items |-> items[e][d]])]

ItemsSumMat(items, n) ==
    [r \in 1..n |-> [c \in 1..n |-> RSum([e \in DOMAIN items |-> items[e][r][c]])]]

\* contribution of element e to DOF d: the local values L[e][j] of the
\* local indices j with subentities[e][j] = d
ElementVec(L, g, e, d) ==
    RSum([j \in 1..NLocal(g.reference_element) |->
        IF g.subentities[e][j] = d THEN L[e][j] ELSE RZero])

\* contribution of element e to the entry (r, c)
ElementMat(B, g, e, r, c) ==
    RSum([i \in 1..NLocal(g.reference_element) |->
        RSum([j \in 1..NLocal(g.reference_element) |->
            IF g.subentities[e][i] = r /\ g.subentities[e][j] = c
            THEN B[e][i][j] ELSE RZero])])

AllElements == 1..NumElements(grid)

AllDofs == 1..NumDofs(grid)

\* C3: whenever a call returns a per-element list, the list sums to the
\* global result of the same call (NonlinearReactionOperator.apply and
\* .jacobian, quadratic_functional.apply and .jacobian); for the reaction
\* operator, which carries the boundary info, the Dirichlet rows are zero in
\* the global result and in every item of the list.
C3_ElementItemsSumToGlobal ==
    (ret.call \in {"apply", "jacobian"} /\ Returned /\ ret.pair) =>
        /\ IsCall("NonlinearReactionOperator", "apply") =>
              /\ ret.value = ItemsSumVec(ret.items, NumDofs(grid))
              /\ \A d \in boundary_info.dirichlet :
                    ret.value[d] = RZero /\ \A e \in AllElements : ret.items[e][d] = RZero
        /\ IsCall("NonlinearReactionOperator", "jacobian") =>
              /\ ret.value = ItemsSumMat(ret.items, NumDofs(grid))
              /\ \A d \in boundary_info.dirichlet, c \in AllDofs :
                    ret.value[d][c] = RZero
                    /\ \A e \in AllElements : ret.items[e][d][c] = RZero
        /\ IsCall("quadratic_functional", "apply") => ret.value = RSum(ret.items)
        /\ IsCall("quadratic_functional", "jacobian") =>
              ret.value = ItemsSumVec(ret.items, NumDofs(grid))

\* a list returned by apply on a grid with a Dirichlet DOF, in which both
\* elements contribute to one free DOF
C3_Witness ==
    /\ IsCall("NonlinearReactionOperator", "apply") /\ Returned /\ ret.pair
    /\ has_dirichlet(boundary_info)
    /\ \E d \in AllDofs \ boundary_info.dirichlet :
          ret.items[1][d] /= RZero /\ ret.items[2][d] /= RZero

\* C24: NonlinearReactionOperator.apply with element_contribution=True
\* returns the pair (global result, list with one entry per element) for
\* every boundary info, also one without Dirichlet DOFs.
C24_ApplyReturnsPairWhenAsked ==
    (IsCall("NonlinearReactionOperator", "apply") /\ Returned /\ ret.element_contribution)
        => /\ ret.pair
           /\ Len(ret.items) = NumElements(grid)

\* With Dirichlet DOFs the pair is returned; the jacobian returns it for
\* every boundary info.
C24_PairWithDirichletOrFromJacobian ==
    /\ (IsCall("NonlinearReactionOperator", "apply") /\ Returned
            /\ ret.element_contribution /\ has_dirichlet(boundary_info))
        => (ret.pair /\ Len(ret.items) = NumElements(grid))
    /\ (IsCall("NonlinearReactionOperator", "jacobian") /\ Returned
            /\ ret.element_contribution)
        => (ret.pair /\ Len(ret.items) = NumElements(grid))

\* C4: the vector returned by NonlinearReactionOperator.apply is 0 at every
\* Dirichlet DOF and, at every other DOF, the sum of the local contributions
\* of the elements containing the DOF, with or without element_contribution.
C4_ApplyClearsDirichletDofs ==
    (IsCall("NonlinearReactionOperator", "apply") /\ Returned) =>
        LET L == Reaction_apply_SF_INTS(op, grid, ret.U, ret.mu, AllElements)
        IN  \A d \in AllDofs :
                ret.value[d] = IF d \in boundary_info.dirichlet THEN RZero
                               ELSE RSum([e \in AllElements |-> ElementVec(L, grid, e, d)])

\* a Dirichlet DOF whose uncleared value is not 0, next to a free DOF with a
\* non-zero value
C4_Witness ==
    /\ IsCall("NonlinearReactionOperator", "apply") /\ Returned
    /\ LET L == Reaction_apply_SF_INTS(op, grid, ret.U, ret.mu, AllElements)
       IN  \E d \in boundary_info.dirichlet :
              RSum([e \in AllElements |-> ElementVec(L, grid, e, d)]) /= RZero
    /\ \E d \in AllDofs \ boundary_info.dirichlet : ret.value[d] /= RZero

\* the matrix M of L2ProductP1 with the operator's reaction coefficient,
\* dirichlet_clear_rows=True and dirichlet_clear_diag=True
MassMatrix(mu) ==
    MatrixOperator_assemble(
        [class |-> "L2ProductP1", dirichlet_clear_rows |-> TRUE,
         dirichlet_clear_columns |-> FALSE, dirichlet_clear_diag |-> TRUE,
         coefficient_function |-> op.reaction_coefficient],
        grid, boundary_info, mu).value

\* M * U
MatVec(M, U) == [r \in DOMAIN M |-> RSum([c \in DOMAIN U |-> RMul(M[r][c], R(U[c]))])]

\* apply(U, mu) returned for the identity as reaction function
IdentityApplied ==
    /\ IsCall("NonlinearReactionOperator", "apply") /\ Returned
    /\ op.reaction_function = "identity"

\* C26: with the identity as reaction function NonlinearReactionOperator
\* .apply(U, mu) equals M * U for the mass matrix M of L2ProductP1 on the
\* same grid and boundary info with the reaction coefficient; at the zero
\* state it is the zero vector.
C26_IdentityReactionIsMass ==
    IdentityApplied => ret.value = MatVec(MassMatrix(ret.mu), ret.U)

\* apply scales with volumes(0), the mass matrix with
\* integration_elements(0): on triangles apply is half of M * U; at the zero
\* state both are zero.
C26_IdentityReactionIsHalfMass ==
    IdentityApplied =>
        /\ ret.value = VecScale(Half, MatVec(MassMatrix(ret.mu), ret.U))
        /\ (\A d \in DOMAIN ret.U : ret.U[d] = 0)
              => \A d \in DOMAIN ret.value : ret.value[d] = RZero

\* C5: in the matrix returned by NonlinearReactionOperator.jacobian every
\* row of a Dirichlet DOF is zero, diagonal included, and every other row is
\* the uncleared sum of the local blocks, Dirichlet columns included.
C5_JacobianClearsDirichletRowsOnly ==
    (IsCall("NonlinearReactionOperator", "jacobian") /\ Returned) =>
        LET B == Reaction_jacobian_SF_INTS(op, grid, ret.U, ret.mu)
        IN  \A r \in AllDofs, c \in AllDofs :
                ret.value[r][c] = IF r \in boundary_info.dirichlet THEN RZero
                                  ELSE LocalSum(B, grid, r, c)

\* a Dirichlet DOF whose diagonal block sum is not 0, and a non-zero entry in
\* its column in a free row
C5_Witness ==
    /\ IsCall("NonlinearReactionOperator", "jacobian") /\ Returned
    /\ \E d \in boundary_info.dirichlet :
          /\ LocalSum(Reaction_jacobian_SF_INTS(op, grid, ret.U, ret.mu), grid, d, d) /= RZero
          /\ ret.value[d][d] = RZero
          /\ \E r \in AllDofs \ boundary_info.dirichlet : ret.value[r][d] /= RZero

\* what NonlinearReactionOperator returns for the inputs of the last call
FullReaction ==
    IF ret.call = "apply"
    THEN NonlinearReactionOperator_apply(op, grid, boundary_info, ret.U, ret.mu, FALSE)
    ELSE NonlinearReactionOperator_jacobian(op, grid, boundary_info, ret.U, ret.mu, FALSE)

ElementReactionCall ==
    op.class = "element_NonlinearReactionOperator" /\ ret.call \in {"apply", "jacobian"}

\* C6: with rho = 1 on every element, element_NonlinearReactionOperator
\* returns from apply and from jacobian what NonlinearReactionOperator
\* returns for the same grid, boundary info, reaction functions, U and mu.
C6_AllOnesReproducesFullOperator ==
    (ElementReactionCall /\ AllOnes(op.rho)) =>
        ret.raised = FullReaction.raised /\ ret.value = FullReaction.value

\* an apply with all weights 1 whose result has a non-zero entry at a DOF of
\* both elements and a cleared Dirichlet DOF
C6_Witness ==
    /\ IsCall("element_NonlinearReactionOperator", "apply") /\ Returned
    /\ AllOnes(op.rho) /\ has_dirichlet(boundary_info)
    /\ 2 \notin boundary_info.dirichlet /\ ret.value[2] /= RZero

\* the weighted sum of the element contributions, Dirichlet rows zeroed
WeightedApply(L, d) ==
    IF d \in boundary_info.dirichlet THEN RZero
    ELSE RSum([e \in AllElements |-> RMul(R(op.rho[e]), ElementVec(L, grid, e, d))])

WeightedJacobian(B, r, c) ==
    IF r \in boundary_info.dirichlet THEN RZero
    ELSE RSum([e \in AllElements |-> RMul(R(op.rho[e]), ElementMat(B, grid, e, r, c))])

WeightedResult ==
    IF ret.call = "apply"
    THEN LET L == Reaction_apply_SF_INTS(op, grid, ret.U, ret.mu, AllElements)
         IN  \A d \in AllDofs : ret.value[d] = WeightedApply(L, d)
    ELSE LET B == Reaction_jacobian_SF_INTS(op, grid, ret.U, ret.mu)
         IN  \A r \in AllDofs, c \in AllDofs : ret.value[r][c] = WeightedJacobian(B, r, c)

\* C7: on a triangle grid, for every rho, the all-zero rho included,
\* element_NonlinearReactionOperator.apply and .jacobian return the sum of
\* rho[e] times the contribution of element e, Dirichlet rows zeroed.
C7_WeightedSumForEveryRho ==
    (ElementReactionCall /\ grid.reference_element = "triangle") =>
        Returned /\ WeightedResult

\* C7, the part that holds: whenever the call returns, it returns the
\* weighted sum; jacobian returns for every rho, apply for every rho with a
\* non-zero weight.
C7_WeightedSumWhenReturned ==
    (ElementReactionCall /\ grid.reference_element = "triangle") =>
        /\ Returned => WeightedResult
        /\ (ret.call = "jacobian" \/ NonZeroIndices(op.rho) /= {}) => Returned

\* C8: quadratic_functional.apply(u_d, mu_d) returns exactly 0, and every
\* per-element value of that call is 0.
C8_ZeroAtTarget ==
    (IsCall("quadratic_functional", "apply") /\ Returned
     /\ ret.U = op.u_d /\ ret.mu = op.mu_d) =>
        /\ ret.value = RZero
        /\ ret.pair => \A e \in AllElements : ret.items[e] = RZero

\* apply at a target state that is not the zero state, with the list
C8_Witness ==
    /\ IsCall("quadratic_functional", "apply") /\ Returned /\ ret.pair
    /\ ret.U = op.u_d /\ ret.mu = op.mu_d
    /\ \E d \in AllDofs : op.u_d[d] /= 0

\* the directions h of a directional derivative
Directions(g) == StateVectors(g)

\* jacobian(U, mu) applied to h: the linear functional's value
ApplyFunctional(J, h) == RSum([d \in DOMAIN J |-> RMul(J[d], R(h[d]))])

\* apply(U + h, mu) - apply(U - h, mu) of the functional op
CentralDifference(U, h, mu) ==
    RSub(quadratic_functional_apply(op, grid, [d \in DOMAIN U |-> U[d] + h[d]],
                                    mu, FALSE).value,
         quadratic_functional_apply(op, grid, [d \in DOMAIN U |-> U[d] - h[d]],
                                    mu, FALSE).value)

\* C25: quadratic_functional.jacobian(U, mu) is the gradient of apply with
\* respect to the state: applied to a direction h it equals
\* (apply(U + h, mu) - apply(U - h, mu)) / 2.
C25_JacobianIsGradient ==
    (IsCall("quadratic_functional", "jacobian") /\ Returned) =>
        \A h \in Directions(grid) :
            ApplyFunctional(ret.value, h) = RMul(Half, CentralDifference(ret.U, h, ret.mu))

\* The jacobian is twice the gradient: apply halves the integral of the
\* square, the jacobian integrates 2 * (u - u_d) unhalved.
C25_JacobianIsTwiceGradient ==
    (IsCall("quadratic_functional", "jacobian") /\ Returned) =>
        \A h \in Directions(grid) :
            ApplyFunctional(ret.value, h) = CentralDifference(ret.U, h, ret.mu)

\* C9: element_quadratic_functional.apply with rho = 1 on every element
\* returns what quadratic_functional.apply returns for the same grid, u_d,
\* mu_d, U and mu: the volume shares of the parameter term add up to it.
C9_AllOnesReproducesFunctional ==
    (IsCall("element_quadratic_functional", "apply") /\ AllOnes(op.rho)) =>
        LET full == quadratic_functional_apply(op, grid, ret.U, ret.mu, FALSE)
        IN  ret.raised = full.raised /\ ret.value = full.value

\* an apply with all weights 1 away from the target state and parameter
C9_Witness ==
    /\ IsCall("element_quadratic_functional", "apply") /\ Returned /\ AllOnes(op.rho)
    /\ ret.U /= op.u_d /\ ret.mu /= op.mu_d
    /\ norm_parameter(ret.mu, op.mu_d) /= RZero /\ ret.value /= RZero

\* C10: quadratic_functional.d_mu(mu, index) returns mu[index] - mu_d[index]
\* and, with element_contribution, a list that sums to that returned value
\* (every component of the sum equals it), in every parameter dimension.
C10_DmuItemsSumToValue ==
    IsCall("quadratic_functional", "d_mu") =>
        /\ Returned
        /\ ret.value = R(ret.mu[ret.index] - op.mu_d[ret.index])
        /\ ret.pair =>
              LET total == ItemsSumVec(ret.items, Len(ret.mu))
              IN  \A k \in DOMAIN total : total[k] = ret.value

\* C10, the part that holds: the returned value is mu[index] - mu_d[index],
\* and the list sums to the whole vector mu - mu_d.
C10_DmuItemsSumToDiff ==
    IsCall("quadratic_functional", "d_mu") =>
        /\ Returned
        /\ ret.value = R(ret.mu[ret.index] - op.mu_d[ret.index])
        /\ ret.pair =>
              ItemsSumVec(ret.items, Len(ret.mu)) = parameter_diff(ret.mu, op.mu_d)

\* C11: element_quadratic_functional.d_mu(mu, index) is the sum over the
\* elements e of rho[e] * volume[e] / total volume * (mu[index] - mu_d[index]):
\* the parameter term is weighted by rho as it is in apply.
C11_DmuWeightedByRho ==
    IsCall("element_quadratic_functional", "d_mu") =>
        /\ Returned
        /\ ret.value =
              RSum([e \in AllElements |->
                  RProd(<<R(op.rho[e]), volume_share(grid, e),
                          R(ret.mu[ret.index] - op.mu_d[ret.index])>>)])

\* C11, the part that holds: d_mu is the sum of the volume shares of the
\* elements with a non-zero weight, each counted once, times
\* mu[index] - mu_d[index]; it is the weighted sum when every weight is 0 or 1.
C11_DmuCountsSelectedElements ==
    IsCall("element_quadratic_functional", "d_mu") =>
        /\ Returned
        /\ ret.value =
              RSum([e \in AllElements |->
                  RProd(<<IF op.rho[e] /= 0 THEN ROne ELSE RZero, volume_share(grid, e),
                          R(ret.mu[ret.index] - op.mu_d[ret.index])>>)])

\* the operator's _assemble performs Dirichlet boundary treatment
PerformsDirichletTreatment(self) ==
    /\ self.class \in MatrixClasses
    /\ RowsCleared(self) \/ self.dirichlet_clear_columns

\* C16: an operator whose assembly performs Dirichlet boundary treatment is
\* never constructed with boundary_info = None (the constructor fails by
\* assertion), so no assemble fails later for a missing boundary info.
C16_NoOperatorWithoutBoundaryInfo ==
    /\ PerformsDirichletTreatment(op) => boundary_info /= None
    /\ (ret.call = "assemble" /\ PerformsDirichletTreatment(op)) => ret.raised /= "AttributeError"

(***************************************************************************)
(* RobinBoundaryOperator.  robin_data is None or the pair of the Robin     *)
(* parameter function c and the boundary value function g, evaluated at    *)
(* the facet centers.                                                      *)
(***************************************************************************)
RobinParameters == {"one", "parametric", "ones"}

RobinDatas == {None} \cup {[c |-> f, g |-> "one"] : f \in RobinParameters}

\* Variant: the matrix without entries taken as the identity.
coo_matrix_empty_eye(n) ==
    Arr([r \in 1..n |-> Arr([c \in 1..n |-> IF r = c THEN ROne ELSE RZero])])

\* coo_matrix((n, n)).tocsc(): the matrix without entries
coo_matrix_empty(n) ==
    Arr([r \in 1..n |-> Arr([c \in 1..n |-> RZero])])

\* robin_c = self.robin_data[0](g.centers(1)[RI], mu=mu), scalar parameter
robin_c(self, RI, mu) ==
    Arr([k \in 1..Len(RI) |-> EvalScalar(self.robin_data.c, RI[k], mu)])

\* SF = np.array([1 - q, q]) at the points of line.quadrature(order=2)
Robin_SF ==
    LET q == quadrature("line", 2).q
    IN  Arr([p \in 1..2 |-> Arr([i \in 1..Len(q) |->
            IF p = 1 THEN RSub(ROne, q[i][1]) ELSE q[i][1]])])

\* np.einsum('e,pi,pj,e,p->eij', robin_c, SF, SF, g.integration_elements(1)[RI], w):
\* the sum runs over the first axis of SF
Robin_SF_INTS(self, g, RI, mu) ==
    LET w == quadrature("line", 2).w
        rc == robin_c(self, RI, mu)
    IN  Arr([e \in 1..Len(RI) |-> Arr([i \in 1..2 |-> Arr([j \in 1..2 |->
            RSum([p \in 1..2 |->
                RMul(RMul(RMul(rc[e], Robin_SF[p][i]),
                          RMul(Robin_SF[p][j], g.facet_integration_elements[RI[e]])),
                     w[p])])])])])

\* g.subentities(1, g.dim)[RI]
RobinFacets(g, RI) == Arr([k \in 1..Len(RI) |-> g.facets[RI[k]]])

\* RobinBoundaryOperator._assemble(mu).  A Robin parameter with
\* shape_range (dim,) gives a 2-d robin_values to the three-index einsum
\* 'ei,eqi->eq', which raises ValueError.
RobinBoundaryOperator_assemble(self, g, bi, mu) ==
    IF g.dim > 2
    THEN [raised |-> "NotImplementedError", value |-> <<>>]
    ELSE IF bi = None \/ ~has_robin(bi) \/ self.robin_data = None
    THEN [raised |-> "none", value |-> coo_matrix_empty(NumDofs(g))]
    ELSE
        LET RI == robin_boundaries(bi)
        IN  IF g.dim = 1
            THEN [raised |-> "none",
                  value |-> coo_matrix(robin_c(self, RI, mu), RI, RI, NumDofs(g))]
            ELSE IF self.robin_data.c \in VectorFunctions
            THEN [raised |-> "ValueError", value |-> <<>>]
            ELSE [raised |-> "none",
                  value |-> coo_matrix(Ravel3(Robin_SF_INTS(self, g, RI, mu), Len(RI), 2),
                                       np_repeat_ravel(RobinFacets(g, RI), 2),
                                       np_tile_ravel(RobinFacets(g, RI), 2),
                                       NumDofs(g))]

(***************************************************************************)
(* State machine of the Robin operator: constructed on a grid of dimension *)
(* 1, 2 or 3 with a boundary info that types the boundary facets (or with  *)
(* None), then assembled.                                                  *)
(***************************************************************************)
RobinGrids == {GridLine2, GridTria1, GridSquare1, GridTetra1}

InitRobin ==
    /\ grid \in RobinGrids
    /\ boundary_info \in FacetBoundaryInfos(grid) \cup {None}
    /\ op = NoOp
    /\ ret = NoRet

\* RobinBoundaryOperator(grid, boundary_info, robin_data): only robin_data
\* is asserted on.  A parameter with shape_range (dim,) is drawn on grids of
\* dimension 2 and 3 only.
RobinBoundaryOperator_init ==
    \E rd \in RobinDatas :
        /\ op = NoOp
        /\ (rd /= None /\ grid.dim = 1) => rd.c \in ScalarFunctions
        /\ op' = [class |-> "RobinBoundaryOperator", robin_data |-> rd]
        /\ ret' = NoRet
        /\ UNCHANGED <<grid, boundary_info>>

\* op.assemble(mu)
RobinBoundaryOperator_assemble_call ==
    \E mu \in Mus :
        /\ op.class = "RobinBoundaryOperator"
        /\ ret = NoRet
        /\ ret' = [call |-> "assemble", mu |-> mu] @@
                  RobinBoundaryOperator_assemble(op, grid, boundary_info, mu)
        /\ UNCHANGED <<grid, boundary_info, op>>

NextRobin ==
    \/ RobinBoundaryOperator_init
    \/ RobinBoundaryOperator_assemble_call

SpecRobin == InitRobin /\ [][NextRobin]_vars

IsRobin == op.class = "RobinBoundaryOperator"

\* the operator has nothing to assemble
RobinInactive ==
    \/ boundary_info = None
    \/ ~has_robin(boundary_info)
    \/ op.robin_data = None

\* C12: on grids of dimension 1 and 2 the Robin operator assembles, without
\* raising, to the all-zero N x N matrix whenever the boundary info is
\* None, has no Robin facet, or robin_data is None.
C12_InactiveRobinIsZero ==
    (IsRobin /\ ret.call = "assemble" /\ grid.dim \in {1, 2} /\ RobinInactive) =>
        /\ ret.raised = "none"
        /\ Len(ret.value) = NumDofs(grid)
        /\ \A r \in 1..NumDofs(grid) :
              /\ Len(ret.value[r]) = NumDofs(grid)
              /\ \A c \in 1..NumDofs(grid) : ret.value[r][c] = RZero

\* C12 witness: Robin data on the rectangle without boundary info
C12_Witness ==
    /\ IsRobin /\ ret.call = "assemble"
    /\ grid = GridSquare1
    /\ boundary_info = None
    /\ op.robin_data /= None
    /\ ret.raised = "none"

\* C14: a Robin operator on a grid of dimension > 2 is rejected when it is
\* constructed: no such operator exists, and the not-implemented signal is
\* never raised as late as inside the assembly routine.
C14_RobinRejectedAtConstruction ==
    /\ IsRobin => grid.dim <= 2
    /\ (IsRobin /\ ret.call = "assemble") => ret.raised /= "NotImplementedError"

\* the nonlinear reaction operators, whose local arrays are triangle-shaped
IsReaction ==
    op.class \in {"NonlinearReactionOperator", "element_NonlinearReactionOperator"}

\* C15: an operator on a grid whose reference element it does not support
\* fails when it is constructed: no nonlinear reaction operator exists on a
\* non-triangle grid, and none fails in apply / jacobian for the element
\* kind.
C15_UnsupportedElementFailsAtConstruction ==
    /\ IsReaction => grid.reference_element = "triangle"
    /\ (IsReaction /\ ret.call \in {"apply", "jacobian"}) => ret.raised /= "ValueError"

(***************************************************************************)
(* Symmetry, row sums and Dirichlet diagonal of the assembled matrices.    *)
(***************************************************************************)
Symmetric(A, n) == \A i \in 1..n, j \in 1..n : A[i][j] = A[j][i]

\* the constructor's default flags of L2ProductP1 / L2ProductQ1
DefaultFlags(self) ==
    /\ self.dirichlet_clear_rows
    /\ ~self.dirichlet_clear_columns
    /\ ~self.dirichlet_clear_diag

\* C23: a matrix returned by an assembler stores no explicit zero: every
\* stored (row, col) position has a non-zero value.
C23_NoStoredZero ==
    (op.class \in MatrixClasses /\ ret.call = "assemble" /\ ret.raised = "none")
        => \A rc \in ret.stored : ret.value[rc[1]][rc[2]] /= RZero

\* Every non-zero entry is stored, and a stored zero is the sum of several
\* non-zero contributions: what is not stored is zero.
C23_UnstoredIsZero ==
    (op.class \in MatrixClasses /\ ret.call = "assemble" /\ ret.raised = "none")
        => \A r, c \in 1..NumDofs(grid) :
              <<r, c>> \notin ret.stored => ret.value[r][c] = RZero

\* C17 as stated: with the default flags the mass matrix is symmetric for
\* any grid and any boundary info.
C17_MassSymmetricWithDefaults ==
    (Assembled /\ IsL2Product(op) /\ DefaultFlags(op)) =>
        Symmetric(ret.value, NumDofs(grid))

\* C17 amended: the mass matrix is symmetric with the default flags when
\* the boundary info has no Dirichlet DOF, and for any boundary info when
\* dirichlet_clear_columns is set in addition to the defaults.
C17_MassSymmetricWhenColumnsFollowRows ==
    (/\ Assembled /\ IsL2Product(op)
     /\ op.dirichlet_clear_rows /\ ~op.dirichlet_clear_diag
     /\ (op.dirichlet_clear_columns \/ ~has_dirichlet(boundary_info))) =>
        Symmetric(ret.value, NumDofs(grid))

\* C17 witness: rows and columns of a Dirichlet DOF cleared in a mass
\* matrix with off-diagonal entries left
C17_Witness ==
    /\ Assembled /\ IsL2Product(op)
    /\ op.dirichlet_clear_rows /\ ~op.dirichlet_clear_diag /\ op.dirichlet_clear_columns
    /\ grid = GridTria2
    /\ boundary_info.dirichlet = {1}
    /\ ret.value[2][3] /= RZero
    /\ ret.value[1][2] = RZero

\* C18: DiffusionOperatorP1 with a constant scalar coefficient (no diffusion
\* function, any diffusion constant) and dirichlet_clear_columns = False:
\* every row of a non-Dirichlet DOF sums to zero.
C18_StiffnessRowsSumToZero ==
    (/\ Assembled /\ op.class = "DiffusionOperatorP1"
     /\ op.diffusion_function = "None" /\ ~op.dirichlet_clear_columns) =>
        \A r \in 1..NumDofs(grid) :
            r \notin boundary_info.dirichlet => RSum(ret.value[r]) = RZero

\* C18 witness: a stiffness matrix on the two-triangle grid with Dirichlet
\* DOF 1 whose row 2 has entries, among them one in the Dirichlet column
C18_Witness ==
    /\ Assembled /\ op.class = "DiffusionOperatorP1"
    /\ op.diffusion_function = "None" /\ ~op.dirichlet_clear_columns
    /\ op.diffusion_constant = R(2)
    /\ grid = GridTria2
    /\ boundary_info.dirichlet = {1}
    /\ ret.value[2][1] /= RZero
    /\ ret.value[2][2] /= RZero

\* C19: with dirichlet_clear_diag the diagonal entry of every Dirichlet DOF
\* of the mass matrix is zero, for every combination of dirichlet_clear_rows
\* and dirichlet_clear_columns.
C19_ClearDiagZeroesDirichletDiagonal ==
    (Assembled /\ IsL2Product(op) /\ op.dirichlet_clear_diag) =>
        \A d \in boundary_info.dirichlet : ret.value[d][d] = RZero

\* with dirichlet_clear_diag and rows or columns cleared, the Dirichlet
\* diagonal of the mass matrix is zero
C19_ClearDiagWithRowsOrColumns ==
    (/\ Assembled /\ IsL2Product(op) /\ op.dirichlet_clear_diag
     /\ (op.dirichlet_clear_rows \/ op.dirichlet_clear_columns)) =>
        \A d \in boundary_info.dirichlet : ret.value[d][d] = RZero

(***************************************************************************)
(* Right-hand side functionals.  The function of a functional is a record  *)
(* scale * f * g of two scalar functions: f itself (g = "one", scale = 1),  *)
(* the negated Neumann data -f, the Robin product c * g, or                *)
(* ConstantFunction(0.).  Boundary functions are evaluated at the facet    *)
(* centers, Dirichlet data at the vertices.                                *)
(***************************************************************************)
Fun(f) == [f |-> f, g |-> "one", scale |-> ROne]

NegFun(f) == [f |-> f, g |-> "one", scale |-> R(-1)]

ProdFun(f, g) == [f |-> f, g |-> g, scale |-> ROne]

ZeroFun == [f |-> "one", g |-> "one", scale |-> RZero]

\* function(x, mu=mu) at the entity with index e
EvalFun(fn, e, mu) ==
    RMul(fn.scale, RMul(EvalScalar(fn.f, e, mu), EvalScalar(fn.g, e, mu)))

\* the function needs the parameter: called without mu it raises
Parametric(fn) == "parametric" \in {fn.f, fn.g}

\* mu of a call without parameter
NoMu == <<>>

\* the exceptions a parametric function can raise when called with mu=None
NoMuExceptions == {"AssertionError", "TypeError"}

\* L2ProductFunctionalP1 / L2ProductFunctionalQ1 ._assemble(mu):
\* np.einsum('e,pi,e,i->ep', F, SF, g.integration_elements(0), w)
L2ProductFunctional_SF_INTS(self, g, mu) ==
    LET ref == g.reference_element
        qw  == quadrature(ref, 1)
        SF  == ShapeValues(ref, qw.q)
    IN  Arr([e \in 1..NumElements(g) |-> Arr([p \in 1..NLocal(ref) |->
            RSum([i \in 1..Len(qw.w) |->
                RProd(<<EvalFun(self.function, e, mu), SF[p][i],
                        g.integration_elements[e], qw.w[i]>>)])])])

L2ProductFunctional_assemble(self, g, bi, mu) ==
    LET n == NLocal(g.reference_element)
        I == coo_vector(Ravel2(L2ProductFunctional_SF_INTS(self, g, mu), NumElements(g), n),
                        Ravel2(g.subentities, NumElements(g), n), NumDofs(g))
    IN  IF self.dirichlet_clear_dofs /\ has_dirichlet(bi)
        THEN [raised |-> "none", value |-> Arr(ClearDofs(I, bi))]
        ELSE [raised |-> "none", value |-> Arr(I)]

\* NI = bi.boundaries(self.boundary_type, 1) if self.boundary_type else g.boundaries(1)
BoundaryFacets(self, g, bi) ==
    IF self.boundary_type = "None" THEN SortedSeq(g.boundary_facets)
    ELSE IF self.boundary_type = "neumann" THEN SortedSeq(bi.neumann)
    ELSE SortedSeq(bi.robin)

\* F = self.function(g.centers(1)[NI], mu=mu)
BoundaryL2_F(self, NI, mu) ==
    Arr([k \in 1..Len(NI) |-> EvalFun(self.function, NI[k], mu)])

\* np.einsum('e,pi,e,i->ep', F, SF, g.integration_elements(1)[NI], w) with
\* q, w = line.quadrature(order=1) and SF = np.array([1 - q, q])
BoundaryL2_SF_INTS(self, g, NI, mu) ==
    LET qw == quadrature("line", 1)
        F  == BoundaryL2_F(self, NI, mu)
    IN  Arr([e \in 1..Len(NI) |-> Arr([p \in 1..2 |->
            RSum([i \in 1..Len(qw.w) |->
                RProd(<<F[e],
                        IF p = 1 THEN RSub(ROne, qw.q[i][1]) ELSE qw.q[i][1],
                        g.facet_integration_elements[NI[e]], qw.w[i]>>)])])])

\* BoundaryL2ProductFunctional._assemble(mu).  On a grid of dimension 1 the
\* function is called without mu (`self.function(g.centers(1)[NI])`): a
\* parametric function raises exc.
BoundaryL2ProductFunctional_assemble(self, g, bi, mu, exc) ==
    LET NI == BoundaryFacets(self, g, bi)
        clear(I) == IF self.dirichlet_clear_dofs /\ has_dirichlet(bi)
                    THEN Arr(ClearDofs(I, bi)) ELSE Arr(I)
    IN  IF g.dim = 1
        THEN IF Parametric(self.function)
             THEN [raised |-> exc, value |-> <<>>]
             ELSE [raised |-> "none",
                   value |-> clear([d \in 1..NumDofs(g) |->
                                IF d \in Range(NI)
                                THEN EvalFun(self.function, d, NoMu) ELSE RZero])]
        ELSE [raised |-> "none",
              value |-> clear(coo_vector(
                            Ravel2(BoundaryL2_SF_INTS(self, g, NI, mu), Len(NI), 2),
                            Ravel2(RobinFacets(g, NI), Len(NI), 2), NumDofs(g)))]

\* BoundaryDirichletFunctional._assemble(mu):
\* I[DI] = self.dirichlet_data(g.centers(g.dim)[DI], mu=mu)
BoundaryDirichletFunctional_assemble(self, g, bi, mu) ==
    [raised |-> "none",
     value |-> Arr([d \in 1..NumDofs(g) |->
                  IF d \in bi.dirichlet THEN EvalFun(self.dirichlet_data, d, mu)
                  ELSE RZero])]

FunctionalClasses == {"L2ProductFunctionalP1", "L2ProductFunctionalQ1",
                      "BoundaryL2ProductFunctional", "BoundaryDirichletFunctional"}

\* _assemble(mu) of a functional; `if ... bi.has_dirichlet` and
\* bi.boundaries / bi.dirichlet_boundaries raise AttributeError on None
Functional_assemble(self, g, bi, mu, exc) ==
    IF self.class = "BoundaryDirichletFunctional"
    THEN (IF bi = None THEN [raised |-> "AttributeError", value |-> <<>>]
          ELSE BoundaryDirichletFunctional_assemble(self, g, bi, mu))
    ELSE IF self.class = "BoundaryL2ProductFunctional"
    THEN BoundaryL2ProductFunctional_assemble(self, g, bi, mu, exc)
    ELSE L2ProductFunctional_assemble(self, g, bi, mu)

\* the functions given to the functionals
DataFunctions == {Fun(f) : f \in ScalarFunctions} \cup {ZeroFun, NegFun("parametric")}

FunctionalGrids == {GridLine2, GridTria1, GridSquare1}

InitRhs ==
    /\ grid \in FunctionalGrids
    /\ boundary_info \in FacetBoundaryInfos(grid) \cup {None}
    /\ op = NoOp
    /\ ret = NoRet

\* L2ProductFunctionalP1(grid, function, dirichlet_clear_dofs, boundary_info):
\* assert not dirichlet_clear_dofs or boundary_info
L2ProductFunctionalP1_init ==
    \E fn \in DataFunctions, clear \in BOOLEAN :
        /\ op = NoOp
        /\ grid.reference_element \in {"line", "triangle"}
        /\ ~clear \/ boundary_info /= None
        /\ op' = [class |-> "L2ProductFunctionalP1", function |-> fn,
                  dirichlet_clear_dofs |-> clear]
        /\ ret' = NoRet
        /\ UNCHANGED <<grid, boundary_info>>

L2ProductFunctionalQ1_init ==
    \E fn \in DataFunctions, clear \in BOOLEAN :
        /\ op = NoOp
        /\ grid.reference_element \in {"square"}
        /\ ~clear \/ boundary_info /= None
        /\ op' = [class |-> "L2ProductFunctionalQ1", function |-> fn,
                  dirichlet_clear_dofs |-> clear]
        /\ ret' = NoRet
        /\ UNCHANGED <<grid, boundary_info>>

\* BoundaryL2ProductFunctional(grid, function, boundary_type,
\* dirichlet_clear_dofs, boundary_info):
\* assert not (boundary_type or dirichlet_clear_dofs) or boundary_info
BoundaryL2ProductFunctional_init ==
    \E fn \in DataFunctions, bt \in {"None", "neumann", "robin"}, clear \in BOOLEAN :
        /\ op = NoOp
        /\ grid.reference_element \in {"line", "triangle", "square"}
        /\ ~(bt /= "None" \/ clear) \/ boundary_info /= None
        /\ op' = [class |-> "BoundaryL2ProductFunctional", function |-> fn,
                  boundary_type |-> bt, dirichlet_clear_dofs |-> clear]
        /\ ret' = NoRet
        /\ UNCHANGED <<grid, boundary_info>>

\* BoundaryDirichletFunctional(grid, dirichlet_data, boundary_info)
BoundaryDirichletFunctional_init ==
    \E fn \in DataFunctions :
        /\ op = NoOp
        /\ grid.reference_element \in {"line", "triangle", "square"}
        /\ op' = [class |-> "BoundaryDirichletFunctional", dirichlet_data |-> fn]
        /\ ret' = NoRet
        /\ UNCHANGED <<grid, boundary_info>>

\* op.assemble(mu) of a functional
Functional_assemble_call ==
    \E mu \in Mus, exc \in NoMuExceptions :
        /\ op.class \in FunctionalClasses
        /\ ret = NoRet
        /\ ret' = [call |-> "assemble", mu |-> mu] @@
                  Functional_assemble(op, grid, boundary_info, mu, exc)
        /\ UNCHANGED <<grid, boundary_info, op>>

NextRhs ==
    \/ L2ProductFunctionalP1_init
    \/ L2ProductFunctionalQ1_init
    \/ BoundaryL2ProductFunctional_init
    \/ BoundaryDirichletFunctional_init
    \/ Functional_assemble_call

SpecRhs == InitRhs /\ [][NextRhs]_vars

\* assemble(mu) of a BoundaryL2ProductFunctional has returned or raised
BoundaryL2Assembled ==
    /\ op.class = "BoundaryL2ProductFunctional"
    /\ ret.call = "assemble"

\* the midpoint rule on the facets NI with the function evaluated at mu:
\* a boundary point of a line grid carries the function value, the two
\* vertices of an edge half of value * length each
BoundaryL2WithMu(self, g, bi, mu) ==
    LET NI == BoundaryFacets(self, g, bi)
        I  == [d \in 1..NumDofs(g) |->
                 RSum([k \in 1..Len(NI) |->
                    IF d \in Range(g.facets[NI[k]])
                    THEN RProd(<<EvalFun(self.function, NI[k], mu),
                                g.facet_integration_elements[NI[k]],
                                IF g.dim = 1 THEN ROne ELSE Half>>)
                    ELSE RZero])]
    IN  IF self.dirichlet_clear_dofs /\ has_dirichlet(bi)
        THEN Arr(ClearDofs(I, bi)) ELSE Arr(I)

\* C27: BoundaryL2ProductFunctional evaluates its function with the mu
\* passed to assemble, in 1-D and 2-D: for a parameter-dependent function
\* assemble(mu) returns the vector of the function's values at mu.
C27_BoundaryFunctionalUsesMu ==
    (BoundaryL2Assembled /\ Parametric(op.function))
        => /\ ret.raised = "none"
           /\ ret.value = BoundaryL2WithMu(op, grid, boundary_info, ret.mu)

\* The 2-d branch alone passes mu on.
C27_BoundaryFunctionalUsesMuIn2D ==
    (BoundaryL2Assembled /\ Parametric(op.function) /\ grid.dim = 2)
        => /\ ret.raised = "none"
           /\ ret.value = BoundaryL2WithMu(op, grid, boundary_info, ret.mu)

\* Functions without parameter are assembled in both dimensions.
C27_BoundaryFunctionalWithoutParameter ==
    (BoundaryL2Assembled /\ ~Parametric(op.function))
        => /\ ret.raised = "none"
           /\ ret.value = BoundaryL2WithMu(op, grid, boundary_info, ret.mu)

(***************************************************************************)
(* discretize_stationary_cg.  The call's arguments grid and boundary_info  *)
(* are the state variables of the same name (None when not passed); op     *)
(* holds the frame of the running call: the problem p, mu_energy_product,  *)
(* the position pc, the operator lists Li and eLi, and the list `events`   *)
(* of the collaborators invoked so far (domain discretizer, constructors,  *)
(* assembly).  A missing function of the problem is "None".  The          *)
(* coefficient functions are plain functions; rhs, neumann_data and        *)
(* dirichlet_data are None, a plain function or a LincombFunction with     *)
(* numbers as coefficients; outputs is None; preassemble is True.          *)
(***************************************************************************)
LinearProblems ==
    {[diffusion |-> d, advection |-> a[1], reaction |-> r, nonlinear_reaction |-> a[2],
      robin_data |-> rd] :
        d \in {"None", "elementwise", "tensor"},
        a \in {<<"None", "None">>, <<"skew", "square">>},
        r \in {"None", "parametric"},
        rd \in {None, [c |-> "one", g |-> "one"]}}

NonlinearAdvections ==
    {<<"None", "None">>, <<"flux", "None">>, <<"None", "dflux">>, <<"flux", "dflux">>}

\* a plain function and a LincombFunction as problem data
Plain(f) == [lincomb |-> FALSE, functions |-> <<f>>, coefficients |-> <<ROne>>]

LincombFunction(functions, coefficients) ==
    [lincomb |-> TRUE, functions |-> functions, coefficients |-> coefficients]

NoData == [rhs |-> None, neumann_data |-> None, dirichlet_data |-> None]

\* a nonlinear advection comes with a problem without linear advection
\* and reaction
Problems ==
    {pr[1] @@ [nonlinear_advection |-> pr[2][1], nonlinear_advection_derivative |-> pr[2][2]]
           @@ NoData :
        pr \in {pr \in LinearProblems \X NonlinearAdvections :
                  \/ pr[2] = <<"None", "None">>
                  \/ pr[1].advection = "None" /\ pr[1].reaction = "None"}}

\* what the domain discretizer can return for p.domain
DomainDiscretizations ==
    {<<GridLine2, [dirichlet |-> {1, 3}, robin |-> {}, neumann |-> {}]>>,
     <<GridTria1, [dirichlet |-> {1, 2, 3}, robin |-> {}, neumann |-> {}]>>,
     <<GridTria1, [dirichlet |-> {1, 3}, robin |-> {3}, neumann |-> {1}]>>}

\* the assertions on the arguments: grid and boundary_info come together
ArgumentsValid(g, bi) ==
    /\ g = None \/ bi /= None
    /\ bi = None \/ g /= None

\* Variant: only nonlinear_advection is looked at.
NonlinearAdvectionSet_function_only(p) == p.nonlinear_advection /= "None"

\* not (p.nonlinear_advection == p.nonlinear_advection_derivative is None)
NonlinearAdvectionSet(p) ==
    ~(/\ p.nonlinear_advection = p.nonlinear_advection_derivative
      /\ p.nonlinear_advection_derivative = "None")

\* the operator classes selected by the reference element
DiffusionOperator(g) ==
    IF g.reference_element = "square" THEN "DiffusionOperatorQ1" ELSE "DiffusionOperatorP1"

AdvectionOperator(g) ==
    IF g.reference_element = "square" THEN "AdvectionOperatorQ1" ELSE "AdvectionOperatorP1"

ReactionOperator(g) ==
    IF g.reference_element = "square" THEN "L2ProductQ1" ELSE "L2ProductP1"

L2Functional(g) ==
    IF g.reference_element = "square" THEN "L2ProductFunctionalQ1" ELSE "L2ProductFunctionalP1"

\* the constructor calls with their keyword arguments and defaults
NewDiffusion(g, df, dc, cols, diag) ==
    [class |-> DiffusionOperator(g), diffusion_function |-> df, diffusion_constant |-> dc,
     dirichlet_clear_columns |-> cols, dirichlet_clear_diag |-> diag]

NewAdvection(g, af) ==
    [class |-> AdvectionOperator(g), advection_function |-> af,
     advection_constant |-> NoConstant, dirichlet_clear_columns |-> FALSE,
     dirichlet_clear_diag |-> TRUE]

NewReaction(g, cf, cols) ==
    [class |-> ReactionOperator(g), dirichlet_clear_rows |-> TRUE,
     dirichlet_clear_columns |-> cols, dirichlet_clear_diag |-> TRUE,
     coefficient_function |-> cf]

NewNonlinearReaction(p) ==
    [class |-> "NonlinearReactionOperator", reaction_coefficient |-> "one",
     reaction_function |-> p.nonlinear_reaction]

NewRobin(rd) == [class |-> "RobinBoundaryOperator", robin_data |-> rd]

\* Variant: the nonlinear reaction part is appended before the reaction part.
BuildLi_nonlinear_first(p, g) ==
    <<NewDiffusion(g, "None", R(0), FALSE, FALSE)>>
    \o (IF p.diffusion /= "None"
        THEN <<NewDiffusion(g, p.diffusion, NoConstant, FALSE, TRUE)>> ELSE <<>>)
    \o (IF p.nonlinear_reaction /= "None" THEN <<NewNonlinearReaction(p)>> ELSE <<>>)
    \o (IF p.advection /= "None" THEN <<NewAdvection(g, p.advection)>> ELSE <<>>)
    \o (IF p.reaction /= "None" THEN <<NewReaction(g, p.reaction, FALSE)>> ELSE <<>>)
    \o (IF p.robin_data /= None THEN <<NewRobin(p.robin_data)>> ELSE <<>>)

\* the list Li of the operator's parts
BuildLi(p, g) ==
    <<NewDiffusion(g, "None", R(0), FALSE, FALSE)>>
    \o (IF p.diffusion /= "None"
        THEN <<NewDiffusion(g, p.diffusion, NoConstant, FALSE, TRUE)>> ELSE <<>>)
    \o (IF p.advection /= "None" THEN <<NewAdvection(g, p.advection)>> ELSE <<>>)
    \o (IF p.reaction /= "None" THEN <<NewReaction(g, p.reaction, FALSE)>> ELSE <<>>)
    \o (IF p.nonlinear_reaction /= "None" THEN <<NewNonlinearReaction(p)>> ELSE <<>>)
    \o (IF p.robin_data /= None THEN <<NewRobin(p.robin_data)>> ELSE <<>>)

\* the list `coefficients` of L: 1. for boundary_part and for every part
BuildCoefficients(p) ==
    <<ROne>>
    \o (IF p.diffusion /= "None" THEN <<ROne>> ELSE <<>>)
    \o (IF p.advection /= "None" THEN <<ROne>> ELSE <<>>)
    \o (IF p.reaction /= "None" THEN <<ROne>> ELSE <<>>)
    \o (IF p.nonlinear_reaction /= "None" THEN <<ROne>> ELSE <<>>)
    \o (IF p.robin_data /= None THEN <<ROne>> ELSE <<>>)

\* Variant: the Dirichlet DOFs of the rhs functional are not cleared.
NewL2Functional_uncleared(g, fn) ==
    [class |-> L2Functional(g), function |-> fn, dirichlet_clear_dofs |-> FALSE]

\* the functional constructor calls
NewL2Functional(g, fn) ==
    [class |-> L2Functional(g), function |-> fn, dirichlet_clear_dofs |-> TRUE]

NewBoundaryL2Functional(fn, bt) ==
    [class |-> "BoundaryL2ProductFunctional", function |-> fn, boundary_type |-> bt,
     dirichlet_clear_dofs |-> TRUE]

NewBoundaryDirichletFunctional(fn) ==
    [class |-> "BoundaryDirichletFunctional", dirichlet_data |-> fn]

\* the list Fi of the right-hand side's parts: rhs (ConstantFunction(0.)
\* when p.rhs is None), Neumann, Robin and Dirichlet data
BuildFi(p, g, bi) ==
    (IF p.rhs = None THEN <<NewL2Functional(g, ZeroFun)>>
     ELSE [i \in DOMAIN p.rhs.functions |-> NewL2Functional(g, Fun(p.rhs.functions[i]))])
    \o (IF p.neumann_data /= None /\ has_neumann(bi)
        THEN [i \in DOMAIN p.neumann_data.functions |->
                NewBoundaryL2Functional(NegFun(p.neumann_data.functions[i]), "neumann")]
        ELSE <<>>)
    \o (IF p.robin_data /= None /\ has_robin(bi)
        THEN <<NewBoundaryL2Functional(ProdFun(p.robin_data.c, p.robin_data.g), "robin")>>
        ELSE <<>>)
    \o (IF p.dirichlet_data /= None /\ has_dirichlet(bi)
        THEN [i \in DOMAIN p.dirichlet_data.functions |->
                NewBoundaryDirichletFunctional(Fun(p.dirichlet_data.functions[i]))]
        ELSE <<>>)

\* the list coefficients_F
BuildCoefficientsF(p, bi) ==
    (IF p.rhs = None THEN <<ROne>> ELSE p.rhs.coefficients)
    \o (IF p.neumann_data /= None /\ has_neumann(bi)
        THEN p.neumann_data.coefficients ELSE <<>>)
    \o (IF p.robin_data /= None /\ has_robin(bi) THEN <<ROne>> ELSE <<>>)
    \o (IF p.dirichlet_data /= None /\ has_dirichlet(bi)
        THEN p.dirichlet_data.coefficients ELSE <<>>)

\* Variant: the Dirichlet-treated products keep their Dirichlet columns.
Products_columns_kept(g, bi) ==
    LET Prod(cols) == [class |-> ReactionOperator(g), dirichlet_clear_rows |-> TRUE,
                       dirichlet_clear_columns |-> cols, dirichlet_clear_diag |-> FALSE,
                       coefficient_function |-> "None"]
        l2_product        == [op |-> Prod(FALSE), boundary_info |-> EmptyBoundaryInfo]
        l2_0_product      == [op |-> Prod(FALSE), boundary_info |-> bi]
        h1_semi_product   == [op |-> NewDiffusion(g, "None", NoConstant, FALSE, FALSE),
                              boundary_info |-> EmptyBoundaryInfo]
        h1_0_semi_product == [op |-> NewDiffusion(g, "None", NoConstant, FALSE, FALSE),
                              boundary_info |-> bi]
    IN  [h1 |-> <<l2_product, h1_semi_product>>,
         h1_semi |-> <<h1_semi_product>>,
         l2 |-> <<l2_product>>,
         h1_0 |-> <<l2_0_product, h1_0_semi_product>>,
         h1_0_semi |-> <<h1_0_semi_product>>,
         l2_0 |-> <<l2_0_product>>]

\* the products dict: Prod / DiffusionOperator with their default arguments,
\* on EmptyBoundaryInfo(grid) or on boundary_info with cleared columns; a
\* sum of two products is the list of its two parts
Products(g, bi) ==
    LET Prod(cols) == [class |-> ReactionOperator(g), dirichlet_clear_rows |-> TRUE,
                       dirichlet_clear_columns |-> cols, dirichlet_clear_diag |-> FALSE,
                       coefficient_function |-> "None"]
        l2_product        == [op |-> Prod(FALSE), boundary_info |-> EmptyBoundaryInfo]
        l2_0_product      == [op |-> Prod(TRUE), boundary_info |-> bi]
        h1_semi_product   == [op |-> NewDiffusion(g, "None", NoConstant, FALSE, FALSE),
                              boundary_info |-> EmptyBoundaryInfo]
        h1_0_semi_product == [op |-> NewDiffusion(g, "None", NoConstant, TRUE, FALSE),
                              boundary_info |-> bi]
    IN  [h1 |-> <<l2_product, h1_semi_product>>,
         h1_semi |-> <<h1_semi_product>>,
         l2 |-> <<l2_product>>,
         h1_0 |-> <<l2_0_product, h1_0_semi_product>>,
         h1_0_semi |-> <<h1_0_semi_product>>,
         l2_0 |-> <<l2_0_product>>]

\* the list eLi of the energy product's parts (built if mu_energy_product):
\* no advection and no nonlinear reaction part
BuildeLi(p, g) ==
    <<NewDiffusion(g, "None", R(0), TRUE, FALSE)>>
    \o (IF p.diffusion /= "None"
        THEN <<NewDiffusion(g, p.diffusion, NoConstant, TRUE, TRUE)>> ELSE <<>>)
    \o (IF p.reaction /= "None" THEN <<NewReaction(g, p.reaction, TRUE)>> ELSE <<>>)
    \o (IF p.robin_data /= None THEN <<NewRobin(p.robin_data)>> ELSE <<>>)

\* the assertion of the diffusion constructors on the function's shape_range
DiffusionAccepted(p, g) == p.diffusion \in MatrixFunctions => g.dim = 2

\* op.assemble(mu) of one part
Part_assemble(part, g, bi, mu) ==
    IF part.class = "RobinBoundaryOperator"
    THEN RobinBoundaryOperator_assemble(part, g, bi, mu)
    ELSE MatrixOperator_assemble(part, g, bi, mu)

\* LincombOperator(operators, [1.]*len(operators)).assemble(mu): the sum of
\* the assembled parts
RECURSIVE Lincomb_assemble(_, _, _, _, _)
Lincomb_assemble(parts, k, g, bi, mu) ==
    IF k = 0 THEN ZeroMat(NumDofs(g))
    ELSE MatAdd(Lincomb_assemble(parts, k - 1, g, bi, mu),
                Part_assemble(parts[k], g, bi, mu).value)

\* A.H of a real matrix
Transposed(A) == [r \in DOMAIN A |-> [c \in DOMAIN A |-> A[c][r]]]

\* the assembled eL, replaced by 0.5*eL + 0.5*eL.H when the diffusion is
\* not scalar
Symmetrized(p, eL) ==
    IF p.diffusion /= "None" /\ p.diffusion \notin ScalarFunctions
    THEN Arr(MatAdd(MatScale(Half, eL), MatScale(Half, Transposed(eL))))
    ELSE Arr(eL)

\* products['energy'], built from eL.assemble(mu_energy_product)
EnergyProduct(p, eLi, g, bi, mu) ==
    Symmetrized(p, Lincomb_assemble(eLi, Len(eLi), g, bi, mu))

Classes(parts) == [k \in DOMAIN parts |-> parts[k].class]

MusEnergy == {NoMu, <<2, 3>>}

\* grids and boundary infos passed to the call: None (twice or once), a
\* line, triangle or rectangle grid with typed boundary facets, or a grid
\* of dimension 3
InitDiscretize ==
    /\ \/ grid = None /\ boundary_info \in {None, EmptyBoundaryInfo}
       \/ grid \in {GridLine2, GridTria1, GridSquare1}
            /\ boundary_info \in FacetBoundaryInfos(grid) \cup {None}
       \/ grid = GridTetra1 /\ boundary_info = EmptyBoundaryInfo
    /\ op = NoOp
    /\ ret = NoRet

Frame(p, mu, pc, events, Li, eLi) ==
    [class |-> "discretize_stationary_cg", p |-> p, mu_energy_product |-> mu,
     pc |-> pc, events |-> events, Li |-> Li, eLi |-> eLi,
     coefficients |-> <<>>, Fi |-> <<>>, coefficients_F |-> <<>>, products |-> <<>>]

\* entry: the assertions on the arguments, then the nonlinear advection
\* check; the frame and the return value after them
discretize_stationary_cg_entry(p, mu, g, bi) ==
    IF ~ArgumentsValid(g, bi)
    THEN [op |-> Frame(p, mu, "done", <<>>, <<>>, <<>>),
          ret |-> [call |-> "discretize_stationary_cg", raised |-> "AssertionError"]]
    ELSE IF NonlinearAdvectionSet(p)
    THEN [op |-> Frame(p, mu, "done", <<>>, <<>>, <<>>),
          ret |-> [call |-> "discretize_stationary_cg", raised |-> "NotImplementedError"]]
    ELSE [op |-> Frame(p, mu, "domain", <<>>, <<>>, <<>>), ret |-> NoRet]

discretize_stationary_cg_call ==
    \E p \in Problems, mu \in MusEnergy :
        /\ op = NoOp
        /\ ret = NoRet
        /\ op' = discretize_stationary_cg_entry(p, mu, grid, boundary_info).op
        /\ ret' = discretize_stationary_cg_entry(p, mu, grid, boundary_info).ret
        /\ UNCHANGED <<grid, boundary_info>>

\* if grid is None: grid, boundary_info = domain_discretizer(p.domain); then
\* assert grid.reference_element in (line, triangle, square)
discretize_domain ==
    /\ op.class = "discretize_stationary_cg"
    /\ op.pc = "domain"
    /\ \E gd \in IF grid = None THEN DomainDiscretizations ELSE {<<grid, boundary_info>>} :
        /\ grid' = gd[1]
        /\ boundary_info' = gd[2]
        /\ LET events == IF grid = None THEN <<"domain_discretizer">> ELSE <<>>
           IN  IF gd[1].reference_element \notin {"line", "triangle", "square"}
               THEN /\ op' = [op EXCEPT !.pc = "done", !.events = events]
                    /\ ret' = [call |-> "discretize_stationary_cg",
                               raised |-> "AssertionError"]
               ELSE /\ op' = [op EXCEPT !.pc = "operators", !.events = events]
                    /\ ret' = ret

\* the operators Li, eLi, the right-hand side functionals and the products
\* are constructed; a diffusion constructor may fail its assertion
discretize_operators ==
    /\ op.class = "discretize_stationary_cg"
    /\ op.pc = "operators"
    /\ IF ~DiffusionAccepted(op.p, grid)
       THEN /\ op' = [op EXCEPT !.pc = "done",
                                !.events = @ \o <<DiffusionOperator(grid)>>
                                    \o (IF op.mu_energy_product /= NoMu
                                        THEN <<DiffusionOperator(grid)>> ELSE <<>>)]
            /\ ret' = [call |-> "discretize_stationary_cg", raised |-> "AssertionError"]
       ELSE LET Li == BuildLi(op.p, grid)
                eLi == IF op.mu_energy_product /= NoMu THEN BuildeLi(op.p, grid) ELSE <<>>
                Fi == BuildFi(op.p, grid, boundary_info)
                prods == <<ReactionOperator(grid), ReactionOperator(grid),
                           DiffusionOperator(grid), DiffusionOperator(grid)>>
            IN  /\ op' = [op EXCEPT !.pc = "energy", !.Li = Li, !.eLi = eLi,
                                    !.coefficients = BuildCoefficients(op.p),
                                    !.Fi = Fi,
                                    !.coefficients_F = BuildCoefficientsF(op.p, boundary_info),
                                    !.products = Products(grid, boundary_info),
                                    !.events = @ \o Classes(Li) \o Classes(eLi)
                                                \o Classes(Fi) \o prods]
                /\ ret' = ret
    /\ UNCHANGED <<grid, boundary_info>>

\* the energy product is assembled, the model built and preassembled, and
\* (m, data) returned
discretize_return ==
    /\ op.class = "discretize_stationary_cg"
    /\ op.pc = "energy"
    /\ LET mu == op.mu_energy_product
           energy == IF mu /= NoMu
                     THEN EnergyProduct(op.p, op.eLi, grid, boundary_info, mu) ELSE <<>>
       IN  /\ op' = [op EXCEPT !.pc = "done",
                               !.events = @ \o (IF mu /= NoMu THEN <<"assemble">> ELSE <<>>)
                                           \o <<"StationaryModel", "preassemble">>]
           /\ ret' = [call |-> "discretize_stationary_cg", raised |-> "none",
                      energy |-> energy, operators |-> Classes(op.Li)]
    /\ UNCHANGED <<grid, boundary_info>>

NextDiscretize ==
    \/ discretize_stationary_cg_call
    \/ discretize_domain
    \/ discretize_operators
    \/ discretize_return

SpecDiscretize == InitDiscretize /\ [][NextDiscretize]_vars

IsDiscretize == op.class = "discretize_stationary_cg"

DiscretizeDone == IsDiscretize /\ op.pc = "done"

(***************************************************************************)
(* The model returned by discretize_stationary_cg for problems with data   *)
(* functions, and the assembly of its parts for a parameter: the           *)
(* right-hand side F, the linear parts of L, and the products.             *)
(***************************************************************************)
DataProblems ==
    {[diffusion |-> d, advection |-> a[1], reaction |-> a[2], nonlinear_reaction |-> a[3],
      robin_data |-> rd, nonlinear_advection |-> "None",
      nonlinear_advection_derivative |-> "None",
      rhs |-> f[1], neumann_data |-> f[2], dirichlet_data |-> dd] :
        d \in {"None", "elementwise"},
        a \in {<<"None", "None", "None">>, <<"None", "None", "square">>,
               <<"skew", "parametric", "square">>},
        rd \in {None, [c |-> "one", g |-> "one"]},
        f \in {<<None, None>>, <<Plain("elementwise"), Plain("parametric")>>},
        dd \in {None, Plain("parametric"),
                LincombFunction(<<"one", "elementwise">>, <<R(2), R(-1)>>)}}

InitModel ==
    /\ grid \in {GridLine2, GridTria1}
    /\ boundary_info \in FacetBoundaryInfos(grid)
    /\ op = NoOp
    /\ ret = NoRet

\* discretize_stationary_cg(p, grid=grid, boundary_info=boundary_info)
discretize_stationary_cg_data_call ==
    \E p \in DataProblems :
        /\ op = NoOp
        /\ ret = NoRet
        /\ op' = discretize_stationary_cg_entry(p, NoMu, grid, boundary_info).op
        /\ ret' = discretize_stationary_cg_entry(p, NoMu, grid, boundary_info).ret
        /\ UNCHANGED <<grid, boundary_info>>

\* (m, data) has been returned and nothing was assembled from m yet
ModelReturned ==
    /\ op.class = "discretize_stationary_cg"
    /\ ret.call = "discretize_stationary_cg"
    /\ ret.raised = "none"

\* LincombOperator(Fi, coefficients_F).assemble(mu): the weighted sum of the
\* assembled functionals; an exception of a part ends the assembly
RECURSIVE Rhs_assemble(_, _, _, _, _, _, _)
Rhs_assemble(Fi, coefficients_F, k, g, bi, mu, exc) ==
    IF k = 0 THEN [raised |-> "none", value |-> ZeroVec(NumDofs(g))]
    ELSE LET head == Rhs_assemble(Fi, coefficients_F, k - 1, g, bi, mu, exc)
             part == Functional_assemble(Fi[k], g, bi, mu, exc)
         IN  IF head.raised /= "none" THEN head
             ELSE IF part.raised /= "none" THEN part
             ELSE [raised |-> "none",
                   value |-> Arr(VecAdd(head.value,
                                        VecScale(coefficients_F[k], part.value)))]

\* m.rhs.assemble(mu)
rhs_assemble ==
    \E mu \in Mus, exc \in NoMuExceptions :
        /\ ModelReturned
        /\ ret' = [call |-> "rhs.assemble", mu |-> mu] @@
                  Rhs_assemble(op.Fi, op.coefficients_F, Len(op.Fi),
                               grid, boundary_info, mu, exc)
        /\ UNCHANGED <<grid, boundary_info, op>>

\* the linear parts of m.operator (all coefficients are 1.)
LinearParts(Li) == SelectSeq(Li, LAMBDA part : part.class /= "NonlinearReactionOperator")

\* the linear parts of m.operator assembled for mu and summed
linear_part_assemble ==
    \E mu \in Mus :
        /\ ModelReturned
        /\ ret' = [call |-> "operator.assemble", mu |-> mu, raised |-> "none",
                   value |-> Arr(Lincomb_assemble(LinearParts(op.Li),
                                                  Len(LinearParts(op.Li)),
                                                  grid, boundary_info, mu))]
        /\ UNCHANGED <<grid, boundary_info, op>>

ProductNames == {"h1", "h1_semi", "l2", "h1_0", "h1_0_semi", "l2_0"}

\* the matrix of a product: the sum of its assembled parts
RECURSIVE Product_assemble(_, _, _)
Product_assemble(parts, k, g) ==
    IF k = 0 THEN ZeroMat(NumDofs(g))
    ELSE MatAdd(Product_assemble(parts, k - 1, g),
                MatrixOperator_assemble(parts[k].op, g, parts[k].boundary_info, NoMu).value)

\* m.products[name].assemble()
product_assemble ==
    \E name \in ProductNames :
        /\ ModelReturned
        /\ ret' = [call |-> "product.assemble", name |-> name, raised |-> "none",
                   value |-> Arr(Product_assemble(op.products[name],
                                                  Len(op.products[name]), grid))]
        /\ UNCHANGED <<grid, boundary_info, op>>

NextModel ==
    \/ discretize_stationary_cg_data_call
    \/ discretize_domain
    \/ discretize_operators
    \/ discretize_return
    \/ rhs_assemble
    \/ linear_part_assemble
    \/ product_assemble

SpecModel == InitModel /\ [][NextModel]_vars

\* the position of a part of L in the order boundary_part, diffusion,
\* advection, reaction, nonlinear reaction, Robin
PartRank(part) ==
    IF part.class \in {"DiffusionOperatorP1", "DiffusionOperatorQ1"}
    THEN (IF part.diffusion_constant = R(0) THEN 0 ELSE 1)
    ELSE IF part.class \in {"AdvectionOperatorP1", "AdvectionOperatorQ1"} THEN 2
    ELSE IF part.class \in {"L2ProductP1", "L2ProductQ1"} THEN 3
    ELSE IF part.class = "NonlinearReactionOperator" THEN 4
    ELSE 5

\* the parts the problem asks for, by rank
PartsRequested(p) ==
    {0} \cup (IF p.diffusion /= "None" THEN {1} ELSE {})
        \cup (IF p.advection /= "None" THEN {2} ELSE {})
        \cup (IF p.reaction /= "None" THEN {3} ELSE {})
        \cup (IF p.nonlinear_reaction /= "None" THEN {4} ELSE {})
        \cup (IF p.robin_data /= None THEN {5} ELSE {})

\* the operator lists have been built
OperatorsBuilt == IsDiscretize /\ op.Li /= <<>>

\* the demo problem: a diffusion, a nonlinear reaction, no advection and no
\* linear reaction
DemoProblem(p) ==
    /\ p.diffusion /= "None"
    /\ p.advection = "None"
    /\ p.reaction = "None"
    /\ p.nonlinear_reaction /= "None"

RhsAssembled == IsDiscretize /\ ret.call = "rhs.assemble" /\ ret.raised = "none"

\* the Dirichlet data at vertex d: its value, the coefficient-weighted sum
\* of the functions of a LincombFunction, 0 without Dirichlet data
DirichletValue(p, d, mu) ==
    IF p.dirichlet_data = None THEN RZero
    ELSE RSum([i \in DOMAIN p.dirichlet_data.functions |->
                RMul(p.dirichlet_data.coefficients[i],
                     EvalScalar(p.dirichlet_data.functions[i], d, mu))])

\* C28: in the assembled right-hand side of the model every entry of a
\* Dirichlet DOF equals the Dirichlet data at that vertex (the weighted sum
\* for a LincombFunction, 0 without Dirichlet data), whatever the rhs,
\* Neumann and Robin functionals contribute.
C28_RhsDirichletEntries ==
    RhsAssembled =>
        \A d \in boundary_info.dirichlet :
            ret.value[d] = DirichletValue(op.p, d, ret.mu)

\* a right-hand side with rhs, Neumann, Robin and Lincomb Dirichlet parts
\* whose Dirichlet entries are the non-zero data and whose other entries
\* are not all zero
C28_Witness ==
    /\ RhsAssembled
    /\ Len(op.Fi) = 5
    /\ op.p.dirichlet_data /= None /\ op.p.dirichlet_data.lincomb
    /\ \E d \in boundary_info.dirichlet :
          ret.value[d] = DirichletValue(op.p, d, ret.mu) /\ ret.value[d] /= RZero
    /\ \E d \in 1..NumDofs(grid) \ boundary_info.dirichlet : ret.value[d] /= RZero

\* the linear parts of the model's operator have been assembled and summed
LinearPartAssembled == IsDiscretize /\ ret.call = "operator.assemble"

\* row d of A is the unit row
UnitRow(A, d) == \A c \in DOMAIN A[d] : A[d][c] = (IF c = d THEN ROne ELSE RZero)

\* a Robin part is active: the problem has Robin data and the boundary info
\* Robin facets
RobinActive(p, bi) == p.robin_data /= None /\ has_robin(bi)

\* C29: the linear part of the system operator (boundary_part plus the
\* diffusion, advection, reaction and Robin terms) has the unit row in every
\* Dirichlet row, also for a Dirichlet vertex on a Robin facet.
C29_UnitDirichletRows ==
    LinearPartAssembled =>
        \A d \in boundary_info.dirichlet : UnitRow(ret.value, d)

\* Without an active Robin part, and for Dirichlet vertices on no Robin
\* facet, the Dirichlet rows are unit rows.
C29_UnitDirichletRowsAwayFromRobin ==
    LinearPartAssembled =>
        \A d \in boundary_info.dirichlet :
            (~RobinActive(op.p, boundary_info)
                \/ d \notin FacetVertices(grid, boundary_info.robin))
            => UnitRow(ret.value, d)

\* a Dirichlet-treated product of the model has been assembled
TreatedProductAssembled ==
    /\ IsDiscretize
    /\ ret.call = "product.assemble"
    /\ ret.name \in {"l2_0", "h1_0_semi", "h1_0"}

\* the off-diagonal entries of the rows and columns of the Dirichlet DOFs
\* are zero
DirichletDecoupled(A, bi) ==
    \A d \in bi.dirichlet : \A c \in DOMAIN A :
        c /= d => (A[d][c] = RZero /\ A[c][d] = RZero)

\* C30 as stated: the products 'l2_0', 'h1_0_semi' and 'h1_0' have the
\* diagonal entry 1 at each Dirichlet DOF and zero off-diagonal entries in
\* each Dirichlet row and column.
C30_TreatedProductsUnitDiagonal ==
    TreatedProductAssembled =>
        /\ DirichletDecoupled(ret.value, boundary_info)
        /\ \A d \in boundary_info.dirichlet : ret.value[d][d] = ROne

\* C30, amended: the three products have zero off-diagonal entries in each
\* Dirichlet row and column; the diagonal entry at a Dirichlet DOF is 1 for
\* 'l2_0' and 'h1_0_semi' and 2 for their sum 'h1_0'.
C30_TreatedProductsDecoupled ==
    TreatedProductAssembled =>
        /\ DirichletDecoupled(ret.value, boundary_info)
        /\ \A d \in boundary_info.dirichlet :
              ret.value[d][d] = (IF ret.name = "h1_0" THEN R(2) ELSE ROne)

\* 'h1_0' on a grid with Dirichlet and other DOFs, the latter coupled
C30_Witness ==
    /\ TreatedProductAssembled
    /\ ret.name = "h1_0"
    /\ \E d \in boundary_info.dirichlet : ret.value[d][d] = R(2)
    /\ \E r, c \in 1..NumDofs(grid) \ boundary_info.dirichlet :
          r /= c /\ ret.value[r][c] /= RZero

\* the problem asks for a nonlinear advection
NonlinearAdvectionRequested ==
    \/ op.p.nonlinear_advection /= "None"
    \/ op.p.nonlinear_advection_derivative /= "None"

\* C13: a call (with arguments that pass the assertions) for a problem
\* whose nonlinear_advection or nonlinear_advection_derivative is set ends
\* with NotImplementedError before the domain discretizer is invoked, before
\* any operator or functional is constructed and before anything is
\* assembled; it returns no model.
C13_NonlinearAdvectionRejectedFirst ==
    (IsDiscretize /\ ArgumentsValid(grid, boundary_info) /\ NonlinearAdvectionRequested) =>
        /\ op.pc = "done"
        /\ ret.raised = "NotImplementedError"
        /\ op.events = <<>>
        /\ op.Li = <<>> /\ op.eLi = <<>>

\* C13 witness: only the derivative is set and no grid was passed, so the
\* next step would have been the domain discretizer
C13_Witness ==
    /\ IsDiscretize
    /\ op.p.nonlinear_advection = "None"
    /\ op.p.nonlinear_advection_derivative /= "None"
    /\ grid = None /\ boundary_info = None
    /\ ret.raised = "NotImplementedError"

\* the call returned a model with an energy product
EnergyReturned ==
    /\ DiscretizeDone
    /\ ret.raised = "none"
    /\ op.mu_energy_product /= NoMu

\* every off-diagonal entry of A in the row or column of a Dirichlet DOF is 0
DirichletCleared(A, g, bi) ==
    \A d \in bi.dirichlet, c \in 1..NumDofs(g) :
        c /= d => (A[d][c] = RZero /\ A[c][d] = RZero)

\* C20: products['energy'] has cleared Dirichlet rows and columns, for every
\* combination of diffusion, reaction and Robin data.
C20_EnergyClearsDirichlet ==
    EnergyReturned => DirichletCleared(ret.energy, grid, boundary_info)

\* without a Robin part acting, the energy product has cleared Dirichlet
\* rows and columns
C20_EnergyClearsDirichletWithoutRobin ==
    (EnergyReturned /\ (op.p.robin_data = None \/ ~has_robin(boundary_info))) =>
        DirichletCleared(ret.energy, grid, boundary_info)
====
